---- MODULE Spec2Model ----
(***************************************************************************)
(* The transactional rewrite engine of auto-refactor (src/src/refactor.ts, *)
(* second revision of the AutoRefactor class, lines 1486-4496).            *)
(*                                                                         *)
(* Strings are modelled as sequences of tokens: a token is a piece of      *)
(* text no test of the code looks inside of, so `s.includes(p)` is the     *)
(* search for p as a contiguous run of tokens of s.  A text (the content   *)
(* of a file) is the sequence of its lines, i.e. what split('\n') gives;   *)
(* a path is the token sequence of its characters with "/" and the         *)
(* extension as tokens of their own.                                       *)
(***************************************************************************)
EXTENDS Integers, Sequences, FiniteSets, TLC

VARIABLES
    disk,          \* the files on disk: path -> text
    dirs,          \* the directories on disk
    now,           \* the last reading of the clock (milliseconds)
    pc,            \* where the engine is
    opts,          \* the options of the running call: dryRun, createBackups
    queue,         \* run: filesToRefactor still to process
    cur,           \* the file being processed (file.path / absolutePath)
    plan,          \* the writes the running synthesis function still has to do
    newFiles,      \* the synthesis function's own newFiles list
    createdFiles,  \* the createdFiles list of performRefactoring / performIntelligentSplit
    backupPath,    \* the value createBackup returned to the transaction
    rb,            \* the running rollbackRefactoring call: its call site and loop index
    results,       \* run: the RefactorResult list; splitFile: its one result
    outcome,       \* how the last call of run / splitFile ended
    calls,         \* calls of run / splitFile still allowed in this behaviour
    disk0,         \* history: the disk when the current file transaction started
    dirs0,         \* history: the directories when the current call started
    written,       \* history: the paths the current file transaction wrote
    backups,       \* history: the paths createBackup wrote in the current transaction
    rbFailed       \* history: a rollback of the current transaction threw

vars == << disk, dirs, now, pc, opts, queue, cur, plan, newFiles, createdFiles,
           backupPath, rb, results, outcome, calls, disk0, dirs0, written,
           backups, rbFailed >>

(***************************************************************************)
(* Bounds of the model.                                                    *)
(***************************************************************************)
\* the longest source file, in lines
MaxSrcLines == 2
\* the clock readings run from 0 to MaxClock
MaxClock == 1
\* config.maxLines, the chunk size of splitContentIntoChunks
ConfigMaxLines == 1
\* the longest text given to the scanner alone, in lines
MaxScanLines == 3
\* the longest text of nested declarations given to the scanner, in lines
MaxNestLines == 5
\* the largest maxLines given to splitContentIntoChunks alone
MaxChunkLines == 2

(***************************************************************************)
(* Strings as token sequences.                                             *)
(***************************************************************************)
\* The tokens of the model that hold another token of the model as a piece of
\* their text (FooBar is Foo followed by Bar): what a search of the code for
\* the smaller one finds inside the larger one.
Beginnings(tok) ==
    CASE tok = "FooBar" -> {"Foo"}
      [] tok = "AppShell" -> {"App"}
      [] tok = ".tsx" -> {".ts"}
      [] tok = ".jsx" -> {".js"}
      [] OTHER -> {}

Endings(tok) ==
    CASE tok = "FooBar" -> {"Bar"}
      [] tok = "DataTable" -> {"Table"}
      [] OTHER -> {}

Inside(tok) == Beginnings(tok) \cup Endings(tok)

\* s.includes(pat): the pattern may start inside a token and end inside one
Includes(s, pat) ==
    \E i \in 0..(Len(s) - Len(pat)) : \A j \in 1..Len(pat) :
        \/ s[i + j] = pat[j]
        \/ Len(pat) = 1 /\ pat[j] \in Inside(s[i + j])
        \/ Len(pat) > 1 /\ j = 1 /\ pat[j] \in Endings(s[i + j])
        \/ Len(pat) > 1 /\ j = Len(pat) /\ pat[j] \in Beginnings(s[i + j])

\* s.startsWith(pat)
StartsWith(s, pat) ==
    /\ Len(pat) <= Len(s)
    /\ \A j \in 1..Len(pat) :
           \/ s[j] = pat[j]
           \/ j = Len(pat) /\ pat[j] \in Beginnings(s[j])

Count(s, tok) == Cardinality({i \in 1..Len(s) : s[i] = tok})

IsBlankLine(line) == \A i \in 1..Len(line) : line[i] = " "

\* String.prototype.trim on one line
TrimLine(line) ==
    IF IsBlankLine(line) THEN << >>
    ELSE LET ix == {i \in 1..Len(line) : line[i] # " "}
             lo == CHOOSE i \in ix : \A j \in ix : i <= j
             hi == CHOOSE i \in ix : \A j \in ix : j <= i
         IN  SubSeq(line, lo, hi)

TrimLeftLine(line) ==
    IF IsBlankLine(line) THEN << >>
    ELSE LET ix == {i \in 1..Len(line) : line[i] # " "}
             lo == CHOOSE i \in ix : \A j \in ix : i <= j
         IN  SubSeq(line, lo, Len(line))

TrimRightLine(line) ==
    IF IsBlankLine(line) THEN << >>
    ELSE LET ix == {i \in 1..Len(line) : line[i] # " "}
             hi == CHOOSE i \in ix : \A j \in ix : j <= i
         IN  SubSeq(line, 1, hi)

(***************************************************************************)
(* Texts: the lines of a string.  EmptyText is '', NL is '\n'.             *)
(***************************************************************************)
EmptyText == << << >> >>

NL == << << >>, << >> >>

\* a + b
Cat(a, b) == SubSeq(a, 1, Len(a) - 1) \o << a[Len(a)] \o b[1] >> \o Tail(b)

\* list.join(sep)
RECURSIVE Join(_, _)
Join(list, sep) ==
    IF Len(list) = 0 THEN EmptyText
    ELSE IF Len(list) = 1 THEN list[1]
    ELSE Cat(Cat(list[1], sep), Join(Tail(list), sep))

\* String.prototype.trim on a text
TrimText(t) ==
    LET ix == {i \in 1..Len(t) : ~IsBlankLine(t[i])}
    IN  IF ix = {} THEN EmptyText
        ELSE LET lo == CHOOSE i \in ix : \A j \in ix : i <= j
                 hi == CHOOSE i \in ix : \A j \in ix : j <= i
             IN  IF lo = hi THEN << TrimLine(t[lo]) >>
                 ELSE << TrimLeftLine(t[lo]) >> \o SubSeq(t, lo + 1, hi - 1)
                      \o << TrimRightLine(t[hi]) >>

\* content.trim().length === 0
IsBlankText(t) == \A i \in 1..Len(t) : IsBlankLine(t[i])

RECURSIVE CountInText(_, _)
CountInText(t, tok) ==
    IF Len(t) = 0 THEN 0 ELSE Count(t[1], tok) + CountInText(Tail(t), tok)

(***************************************************************************)
(* Paths.                                                                  *)
(***************************************************************************)
ExtTokens == {".ts", ".tsx", ".jsx", ".js", ".backup"}

LastSlash(p) ==
    LET ix == {i \in 1..Len(p) : p[i] = "/"}
    IN  IF ix = {} THEN 0 ELSE CHOOSE i \in ix : \A j \in ix : j <= i

\* path.dirname
Dirname(p) == SubSeq(p, 1, LastSlash(p) - 1)

\* path.extname
Extname(p) ==
    IF Len(p) > LastSlash(p) + 1 /\ p[Len(p)] \in ExtTokens
    THEN << p[Len(p)] >> ELSE << >>

\* path.basename(p)
Basename(p) == SubSeq(p, LastSlash(p) + 1, Len(p))

\* path.basename(p, ext)
BasenameNoExt(p, ext) ==
    LET b == Basename(p)
    IN  IF Len(ext) = 1 /\ Len(b) > 1 /\ b[Len(b)] = ext[1]
        THEN SubSeq(b, 1, Len(b) - 1) ELSE b

\* path.join(dir, name)
PathJoin(dir, name) == IF Len(dir) = 0 THEN name ELSE dir \o << "/" >> \o name

(***************************************************************************)
(* Identifiers.  An identifier is one token; what the code's regular       *)
(* expressions ask of its characters is tabulated here.                    *)
(***************************************************************************)
\* tokens matching \w+
Words == {"Foo", "x", "X", "helper", "App", "Main", "util", "index", "types",
          "common", "api", "a", "string", "default", "from", "as", "return",
          "null", "1", "5", "Status", "Bot", "Deal", "Bar", "FooBar", "AppShell",
          "DataTable", "f", "T", "Color", "function", "const", "type"}

\* identifiers starting with [A-Z]
CapitalWords == {"Foo", "X", "App", "Main", "Status", "Bot", "Deal", "Bar", "FooBar",
                 "AppShell", "DataTable", "T", "Color"}

\* identifiers starting with [a-z], and their first character upper-cased
LowerWords == {"x", "helper", "util", "index", "types", "common", "api", "a", "f"}

UpperFirst(tok) ==
    CASE tok = "x" -> "X"
      [] tok = "helper" -> "Helper"
      [] tok = "util" -> "Util"
      [] tok = "index" -> "Index"
      [] tok = "types" -> "Types"
      [] tok = "common" -> "Common"
      [] tok = "api" -> "Api"
      [] tok = "a" -> "A"
      [] tok = "f" -> "F"
      [] OTHER -> tok

\* /^[A-Z].*(?:Table|Component|Page|View|Layout|App)$/ : a capital letter, any
\* characters, the suffix.  App alone does not match (nothing is left for the
\* suffix after its first letter), and neither does AppShell.
RoleWords == {"DataTable"}

(***************************************************************************)
(* The scanner: parseReactFile and what it calls.  Line indices are the    *)
(* code's plus one.                                                        *)
(***************************************************************************)
BraceDelta(line) == Count(line, "{") - Count(line, "}")

RECURSIVE FindEndOfImportFrom(_, _, _)
FindEndOfImportFrom(lines, i, braceCount) ==
    IF i > Len(lines) THEN i - 1
    ELSE LET bc == braceCount + BraceDelta(lines[i])
         IN  IF Includes(lines[i], << ";" >>) /\ bc <= 0 THEN i
             ELSE FindEndOfImportFrom(lines, i + 1, bc)

findEndOfImport(lines, startIndex) == FindEndOfImportFrom(lines, startIndex, 0)

RECURSIVE FindEndOfTypeFrom(_, _, _, _)
FindEndOfTypeFrom(lines, i, braceCount, foundOpenBrace) ==
    IF i > Len(lines) THEN i - 1
    ELSE LET bc == braceCount + BraceDelta(lines[i])
             found == foundOpenBrace \/ Count(lines[i], "{") > 0
         IN  IF ~found /\ Includes(lines[i], << ";" >>) THEN i
             ELSE IF found /\ bc = 0 THEN i
             ELSE FindEndOfTypeFrom(lines, i + 1, bc, found)

findEndOfTypeDefinition(lines, startIndex) ==
    FindEndOfTypeFrom(lines, startIndex, 0, FALSE)

RECURSIVE FindEndOfConstantFrom(_, _, _, _)
FindEndOfConstantFrom(lines, i, braceCount, foundStart) ==
    IF i > Len(lines) THEN i - 1
    ELSE LET bc == braceCount + BraceDelta(lines[i])
                   + Count(lines[i], "[") - Count(lines[i], "]")
             found == foundStart \/ Count(lines[i], "{") > 0
                                 \/ Count(lines[i], "[") > 0
         IN  IF ~found /\ Includes(lines[i], << ";" >>) THEN i
             ELSE IF found /\ bc = 0 /\ Includes(lines[i], << ";" >>) THEN i
             ELSE FindEndOfConstantFrom(lines, i + 1, bc, found)

findEndOfConstant(lines, start) == FindEndOfConstantFrom(lines, start, 0, FALSE)

RECURSIVE FindEndOfFunctionFrom(_, _, _, _)
FindEndOfFunctionFrom(lines, i, braceCount, foundFunctionStart) ==
    IF i > Len(lines) THEN i - 1
    ELSE LET bc == braceCount + BraceDelta(lines[i])
             found == foundFunctionStart \/ Count(lines[i], "{") > 0
         IN  IF /\ Includes(lines[i], << "=>" >>)
                /\ ~Includes(lines[i], << "{" >>)
                /\ ~found
                /\ (Includes(lines[i], << ";" >>) \/ i = Len(lines))
             THEN i
             ELSE IF found /\ bc = 0 THEN i
             ELSE FindEndOfFunctionFrom(lines, i + 1, bc, found)

findEndOfFunction(lines, startIndex) ==
    FindEndOfFunctionFrom(lines, startIndex, 0, FALSE)

\* { content, endIndex }: content is lines.slice(startIndex, endIndex + 1).join('\n')
extractBlock(lines, startIndex, blockType) ==
    LET endIndex ==
            CASE blockType = "import" -> findEndOfImport(lines, startIndex)
              [] blockType = "type" -> findEndOfTypeDefinition(lines, startIndex)
              [] blockType = "constant" -> findEndOfConstant(lines, startIndex)
              [] blockType = "function" -> findEndOfFunction(lines, startIndex)
              [] OTHER -> startIndex
    IN  [content |-> SubSeq(lines, startIndex, endIndex), endIndex |-> endIndex]

isFunction(line) ==
    /\ \/ Includes(line, << "function", " " >>)
       \/ /\ Includes(line, << "const", " " >>)
          /\ Includes(line, << " ", "=", " " >>)
          /\ (Includes(line, << "=>" >>) \/ Includes(line, << "function" >>))
    /\ ~Includes(line, << "React.", "FC" >>)
    /\ ~Includes(line, << ":", " ", "FC" >>)

\* /(?:function|const)\s+(...)/ : the identifier the keyword is followed by
KeywordNameAt(line, i) ==
    /\ line[i] \in {"function", "const"}
    /\ i + 2 <= Len(line)
    /\ line[i + 1] = " "
    /\ line[i + 2] \in Words

\* /<[A-Z][^>]*>/
HasGenericParameter(line) ==
    \E i \in 1..Len(line) : \E j \in 1..Len(line) :
        /\ line[i] = "<" /\ i + 1 < j /\ line[j] = ">"
        /\ line[i + 1] \in CapitalWords

isComponent(line) ==
    /\ \/ Includes(line, << "function", " " >>)
       \/ Includes(line, << "const", " " >>) /\ Includes(line, << " ", "=", " " >>)
    /\ \/ Includes(line, << "React.", "FC" >>)
       \/ Includes(line, << ":", " ", "FC" >>)
       \/ Includes(line, << ":", " ", "React." >>)
       \/ Includes(line, << "JSX.Element" >>)
       \/ Includes(line, << "ReactElement" >>)
       \/ Includes(line, << "export", " ", "function" >>)
       \/ \E i \in 1..Len(line) :
              KeywordNameAt(line, i) /\ line[i + 2] \in CapitalWords
       \/ HasGenericParameter(line)

isMainComponent(lines, index) ==
    LET line == lines[index]
        ix == {i \in 1..Len(line) : KeywordNameAt(line, i)}
    IN  IF ix = {} THEN FALSE
        ELSE LET k == CHOOSE i \in ix : \A j \in ix : i <= j
                 componentName == line[k + 2]
             IN  \/ \E i \in index..Len(lines) :
                        Includes(lines[i],
                                 << "export", " ", "default", " ", componentName >>)
                 \/ Includes(line, << "export", " ", "function" >>)
                 \/ componentName \in RoleWords

EmptyParse ==
    [imports |-> << >>, types |-> << >>, constants |-> << >>,
     utilities |-> << >>, subComponents |-> << >>, mainComponent |-> EmptyText]

RECURSIVE ParseFrom(_, _, _)
ParseFrom(lines, i, result) ==
    IF i > Len(lines) THEN result
    ELSE LET line == TrimLine(lines[i]) IN
         IF StartsWith(line, << "import" >>)
         THEN LET b == extractBlock(lines, i, "import")
              IN  ParseFrom(lines, b.endIndex + 1,
                      [result EXCEPT !.imports = Append(@, b.content)])
         ELSE IF Includes(line, << "interface", " " >>) \/ Includes(line, << "type", " " >>)
         THEN LET b == extractBlock(lines, i, "type")
              IN  ParseFrom(lines, b.endIndex + 1,
                      [result EXCEPT !.types = Append(@, b.content)])
         ELSE IF /\ StartsWith(line, << "const", " " >>)
                 /\ ~isFunction(line)
                 /\ ~isComponent(line)
         THEN LET b == extractBlock(lines, i, "constant")
              IN  ParseFrom(lines, b.endIndex + 1,
                      [result EXCEPT !.constants = Append(@, b.content)])
         ELSE IF isFunction(line) \/ isComponent(line)
         THEN LET b == extractBlock(lines, i, "function")
              IN  ParseFrom(lines, b.endIndex + 1,
                      IF isComponent(line)
                      THEN IF isMainComponent(lines, i)
                           THEN [result EXCEPT !.mainComponent = b.content]
                           ELSE [result EXCEPT !.subComponents = Append(@, b.content)]
                      ELSE [result EXCEPT !.utilities = Append(@, b.content)])
         ELSE ParseFrom(lines, i + 1, result)

\* the branch the loop of parseReactFile takes at line i: the blockType it
\* extracts there, or "none" when it steps over the line
BlockTypeAt(lines, i) ==
    LET line == TrimLine(lines[i])
    IN  IF StartsWith(line, << "import" >>) THEN "import"
        ELSE IF Includes(line, << "interface", " " >>) \/ Includes(line, << "type", " " >>)
        THEN "type"
        ELSE IF StartsWith(line, << "const", " " >>) /\ ~isFunction(line) /\ ~isComponent(line)
        THEN "constant"
        ELSE IF isFunction(line) \/ isComponent(line) THEN "function"
        ELSE "none"

\* a scanner whose main-component slot keeps the first block put in it
RECURSIVE ParseFromKeepingMain(_, _, _)
ParseFromKeepingMain(lines, i, result) ==
    IF i > Len(lines) THEN result
    ELSE IF BlockTypeAt(lines, i) = "none" THEN ParseFromKeepingMain(lines, i + 1, result)
    ELSE LET t == BlockTypeAt(lines, i)
             b == extractBlock(lines, i, t)
             line == TrimLine(lines[i])
         IN  ParseFromKeepingMain(lines, b.endIndex + 1,
                 IF t = "import" THEN [result EXCEPT !.imports = Append(@, b.content)]
                 ELSE IF t = "type" THEN [result EXCEPT !.types = Append(@, b.content)]
                 ELSE IF t = "constant"
                 THEN [result EXCEPT !.constants = Append(@, b.content)]
                 ELSE IF ~isComponent(line)
                 THEN [result EXCEPT !.utilities = Append(@, b.content)]
                 ELSE IF ~isMainComponent(lines, i)
                 THEN [result EXCEPT !.subComponents = Append(@, b.content)]
                 ELSE IF result.mainComponent = EmptyText
                 THEN [result EXCEPT !.mainComponent = b.content]
                 ELSE result)

parseReactFileKeepingMain(content) == ParseFromKeepingMain(content, 1, EmptyParse)

parseReactFile(content) == ParseFrom(content, 1, EmptyParse)

\* the list of the result a block extracted at line i is put on
CategoryAt(lines, i) ==
    LET t == BlockTypeAt(lines, i)
    IN  IF t = "import" THEN "imports"
        ELSE IF t = "type" THEN "types"
        ELSE IF t = "constant" THEN "constants"
        ELSE IF t = "none" THEN "none"
        ELSE IF ~isComponent(TrimLine(lines[i])) THEN "utilities"
        ELSE IF isMainComponent(lines, i) THEN "mainComponent"
        ELSE "subComponents"

\* the blocks of a loop that goes on at the line after the first line of a
\* block, not at the line after its last
RECURSIVE BlocksFromEveryLine(_, _)
BlocksFromEveryLine(lines, i) ==
    IF i > Len(lines) THEN << >>
    ELSE IF BlockTypeAt(lines, i) = "none" THEN BlocksFromEveryLine(lines, i + 1)
    ELSE << [first |-> i,
             last |-> extractBlock(lines, i, BlockTypeAt(lines, i)).endIndex,
             category |-> CategoryAt(lines, i)] >>
         \o BlocksFromEveryLine(lines, i + 1)

\* the blocks the loop of parseReactFile extracts from line i on, in order:
\* their first and last line and the list they are put on
RECURSIVE BlocksFrom(_, _)
BlocksFrom(lines, i) ==
    IF i > Len(lines) THEN << >>
    ELSE IF BlockTypeAt(lines, i) = "none" THEN BlocksFrom(lines, i + 1)
    ELSE << [first |-> i,
             last |-> extractBlock(lines, i, BlockTypeAt(lines, i)).endIndex,
             category |-> CategoryAt(lines, i)] >>
         \o BlocksFrom(lines, extractBlock(lines, i, BlockTypeAt(lines, i)).endIndex + 1)

(***************************************************************************)
(* The import filter.                                                      *)
(***************************************************************************)
\* the module specifiers, quotes included: ['"][^'"]+['"]
ModuleTokens == {"'x'", "'y'"}

\* white space: a blank, or the line end of a flattened text
IsWs(tok) == tok \in {" ", "\n"}

\* the first index not below i that holds no white space
SkipWs(s, i) ==
    LET ix == {j \in i..Len(s) : ~IsWs(s[j])}
    IN  IF ix = {} THEN Len(s) + 1 ELSE CHOOSE j \in ix : \A k \in ix : j <= k

\* \s+from\s+['"]([^'"]+)['"] at index i
FromAt(s, i) ==
    /\ i <= Len(s) /\ IsWs(s[i])
    /\ LET f == SkipWs(s, i)
       IN  /\ f + 1 <= Len(s) /\ s[f] = "from" /\ IsWs(s[f + 1])
           /\ LET m == SkipWs(s, f + 1)
              IN  m <= Len(s) /\ s[m] \in ModuleTokens

\* the binding matched at index k:
\* \{([^}]+)\} | \*\s+as\s+(\w+) | (\w+), followed by the from clause
BindingAt(s, k) ==
    IF k > Len(s) THEN [form |-> "none"]
    ELSE IF /\ s[k] = "{"
            /\ \E c \in (k + 2)..Len(s) :
                   /\ s[c] = "}" /\ \A d \in (k + 1)..(c - 1) : s[d] # "}"
                   /\ FromAt(s, c + 1)
    THEN LET c == CHOOSE c \in (k + 2)..Len(s) :
                      s[c] = "}" /\ \A d \in (k + 1)..(c - 1) : s[d] # "}"
         IN  [form |-> "named", names |-> SubSeq(s, k + 1, c - 1)]
    ELSE IF /\ s[k] = "*" /\ k + 1 <= Len(s) /\ IsWs(s[k + 1])
            /\ LET a == SkipWs(s, k + 1)
               IN  /\ a + 1 <= Len(s) /\ s[a] = "as" /\ IsWs(s[a + 1])
                   /\ LET w == SkipWs(s, a + 1)
                      IN  w <= Len(s) /\ s[w] \in Words /\ FromAt(s, w + 1)
    THEN [form |-> "namespace", name |-> s[SkipWs(s, SkipWs(s, k + 1) + 1)]]
    ELSE IF s[k] \in Words /\ FromAt(s, k + 1)
    THEN [form |-> "default", name |-> s[k]]
    ELSE [form |-> "none"]

\* import\s+(?:type\s+)?(...) at index i
ImportAt(s, i) ==
    IF ~(i + 1 <= Len(s) /\ s[i] = "import" /\ IsWs(s[i + 1]))
    THEN [form |-> "none"]
    ELSE LET k == SkipWs(s, i + 1)
             withType ==
                 IF k + 1 <= Len(s) /\ s[k] = "type" /\ IsWs(s[k + 1])
                 THEN BindingAt(s, SkipWs(s, k + 1))
                 ELSE [form |-> "none"]
         IN  IF withType.form # "none" THEN withType ELSE BindingAt(s, k)

\* importStatement.match(...): the leftmost match
ImportMatch(s) ==
    LET ix == {i \in 1..Len(s) : ImportAt(s, i).form # "none"}
    IN  IF ix = {} THEN [form |-> "none"]
        ELSE ImportAt(s, CHOOSE i \in ix : \A j \in ix : i <= j)

\* a text as one string, its line ends as "\n" tokens
RECURSIVE Flatten(_)
Flatten(t) ==
    IF Len(t) = 0 THEN << >>
    ELSE IF Len(t) = 1 THEN t[1]
    ELSE t[1] \o << "\n" >> \o Flatten(Tail(t))

\* namedImports.split(',')
RECURSIVE SplitComma(_)
SplitComma(s) ==
    LET ix == {i \in 1..Len(s) : s[i] = ","}
    IN  IF ix = {} THEN << s >>
        ELSE LET c == CHOOSE i \in ix : \A j \in ix : i <= j
             IN  << SubSeq(s, 1, c - 1) >> \o SplitComma(SubSeq(s, c + 1, Len(s)))

\* imp.replace(/\s+as\s+\w+/, '').trim()
CleanImport(imp) ==
    LET t == TrimLine(imp)
        asAt(i) ==
            /\ IsWs(t[i])
            /\ LET a == SkipWs(t, i)
               IN  /\ a + 1 <= Len(t) /\ t[a] = "as" /\ IsWs(t[a + 1])
                   /\ LET w == SkipWs(t, a + 1) IN w <= Len(t) /\ t[w] \in Words
        ix == {i \in 1..Len(t) : asAt(i)}
    IN  IF ix = {} THEN t
        ELSE LET i == CHOOSE i \in ix : \A j \in ix : i <= j
                 w == SkipWs(t, SkipWs(t, i) + 1)
             IN  TrimLine(SubSeq(t, 1, i - 1) \o SubSeq(t, w + 1, Len(t)))

\* content.includes(name), for a name that holds no line end
TextIncludes(content, name) == \E i \in 1..Len(content) : Includes(content[i], name)

\* the three forms of the filter, for the match m of an import statement
MatchIsUsed(content, m) ==
    CASE m.form = "named" ->
             \E i \in 1..Len(SplitComma(m.names)) :
                 TextIncludes(content, CleanImport(SplitComma(m.names)[i]))
      [] m.form = "namespace" -> TextIncludes(content, << m.name >>)
      [] m.form = "default" -> TextIncludes(content, << m.name >>)
      [] OTHER -> FALSE

ImportIsUsed(content, importStatement) ==
    MatchIsUsed(content, ImportMatch(Flatten(importStatement)))

getRequiredImports(content, allImports) ==
    SelectSeq(allImports, LAMBDA imp : ImportIsUsed(content, imp))

(***************************************************************************)
(* The code generators of the split (performIntelligentSplit).             *)
(***************************************************************************)
\* '\n\n'
NL2 == << << >>, << >>, << >> >>

\* the pieces of a template literal, concatenated
CatAll(list) == Join(list, EmptyText)

\* a one-line string as a text
Line(toks) == << toks >>

generateTypesFile(types, imports) ==
    CatAll(<< Join(imports, NL), NL2, Line(<< "// Type definitions" >>), NL2,
              Join(types, NL2), NL >>)

generateConstantsFile(constants, imports) ==
    CatAll(<< Join(imports, NL), NL2, Line(<< "// Constants" >>), NL2,
              Join(constants, NL2), NL >>)

generateUtilsFile(utilities, imports) ==
    CatAll(<< Join(imports, NL), NL2, Line(<< "// Utility functions" >>), NL2,
              Join(utilities, NL2), NL >>)

generateComponentsFile(subComponents, imports, fileName) ==
    CatAll(<< Join(imports, NL), NL2,
              Line(<< "// Sub-components for " >> \o fileName), NL2,
              Join(subComponents, NL2), NL >>)

\* path.basename(file, path.extname(file))
BaseNameOf(file) == BasenameNoExt(file, Extname(file))

generateMainComponentFile(mainComponent, imports, fileName, created) ==
    LET split(file) ==
            \/ Includes(BaseNameOf(file), << "-", "types" >>)
            \/ Includes(BaseNameOf(file), << "-", "constants" >>)
            \/ Includes(BaseNameOf(file), << "-", "utils" >>)
            \/ Includes(BaseNameOf(file), << "-", "components" >>)
        importOf(file) ==
            IF Includes(BaseNameOf(file), << "-", "types" >>)
            THEN Line(<< "import", " ", "type", " ", "*", " ", "from", " ", "'./" >>
                      \o BaseNameOf(file) \o << "'", ";" >>)
            ELSE Line(<< "import", " ", "*", " ", "from", " ", "'./" >>
                      \o BaseNameOf(file) \o << "'", ";" >>)
        files == SelectSeq(created, split)
        relativeImports == [i \in 1..Len(files) |-> importOf(files[i])]
    IN  CatAll(<< Join(imports, NL), NL2, Join(relativeImports, NL), NL2,
                  Line(<< "// Main component" >>), NL2, mainComponent, NL >>)

\* str.replace(/(^|-)([a-z])/g, (g) => g.slice(-1).toUpperCase())
RECURSIVE PascalFrom(_, _)
PascalFrom(str, atStart) ==
    IF Len(str) = 0 THEN << >>
    ELSE IF str[1] = "-" /\ Len(str) > 1 /\ str[2] \in LowerWords
    THEN << UpperFirst(str[2]) >> \o PascalFrom(Tail(Tail(str)), FALSE)
    ELSE IF atStart /\ str[1] \in LowerWords
    THEN << UpperFirst(str[1]) >> \o PascalFrom(Tail(str), FALSE)
    ELSE << str[1] >> \o PascalFrom(Tail(str), FALSE)

toPascalCase(str) == PascalFrom(str, TRUE)

\* fileName.split('-').map((part) => part.charAt(0).toUpperCase() + part.slice(1)).join('')
RECURSIVE MainComponentNameFrom(_, _)
MainComponentNameFrom(fileName, atStart) ==
    IF Len(fileName) = 0 THEN << >>
    ELSE IF fileName[1] = "-" THEN MainComponentNameFrom(Tail(fileName), TRUE)
    ELSE IF atStart
    THEN << UpperFirst(fileName[1]) >> \o MainComponentNameFrom(Tail(fileName), FALSE)
    ELSE << fileName[1] >> \o MainComponentNameFrom(Tail(fileName), FALSE)

extractMainComponentName(fileName) == MainComponentNameFrom(fileName, TRUE)

generateIndexFile(fileName, created) ==
    LET isIndex(file) == Includes(BaseNameOf(file), << "index" >>)
        isPart(file) ==
            \/ Includes(BaseNameOf(file), << "-", "types" >>)
            \/ Includes(BaseNameOf(file), << "-", "constants" >>)
            \/ Includes(BaseNameOf(file), << "-", "utils" >>)
            \/ Includes(BaseNameOf(file), << "-", "components" >>)
        isMain(file) ==
            ~isIndex(file) /\ ~isPart(file) /\ Includes(BaseNameOf(file), << "-", "main" >>)
        listed(file) == ~isIndex(file) /\ (isPart(file) \/ isMain(file))
        files == SelectSeq(created, listed)
        mainComponentName ==
            IF \E i \in 1..Len(created) : isMain(created[i])
            THEN toPascalCase(fileName) ELSE << >>
        exportOf(file) ==
            IF isPart(file)
            THEN Line(<< "export", " ", "*", " ", "from", " ", "'./" >>
                      \o BaseNameOf(file) \o << "'", ";" >>)
            ELSE Line(<< "import", " " >> \o mainComponentName
                      \o << " ", "from", " ", "'./" >> \o BaseNameOf(file)
                      \o << "'", ";" >>)
        exports ==
            [i \in 1..Len(files) |-> exportOf(files[i])]
            \o (IF Len(mainComponentName) > 0
                THEN << Line(<< "export", " ", "{", " " >> \o mainComponentName
                             \o << " ", "}", ";" >>),
                        Line(<< "export", " ", "default", " " >>
                             \o mainComponentName \o << ";" >>) >>
                ELSE << >>)
    IN  CatAll(<< Line(<< "// Auto-generated index file for " >> \o fileName), NL2,
                  Join(exports, NL), NL >>)

createUpdatedOriginalFile(fileName, componentDir) ==
    << << "// This file has been refactored and split into multiple files" >>,
       << "// The original functionality is now exported from the " >>
           \o fileName \o << " ", "directory" >>,
       << >>,
       << "export", " ", "*", " ", "from", " ", "'./" >> \o Basename(componentDir)
           \o << "'", ";" >>,
       << "export", " ", "{", " ", "default", " ", "}", " ", "from", " ", "'./" >>
           \o Basename(componentDir) \o << "'", ";" >>,
       << >> >>

(***************************************************************************)
(* The code generators of run (refactorGenericFile, refactorTypesFile).    *)
(***************************************************************************)
RECURSIVE ChunksFrom(_, _, _, _, _, _)
ChunksFrom(lines, i, chunks, currentChunk, currentLines, maxLines) ==
    IF i > Len(lines)
    THEN IF ~IsBlankText(currentChunk)
         THEN Append(chunks, TrimText(currentChunk)) ELSE chunks
    ELSE IF currentLines >= maxLines /\ IsBlankLine(lines[i])
    THEN ChunksFrom(lines, i + 1, Append(chunks, TrimText(currentChunk)),
                    EmptyText, 0, maxLines)
    ELSE ChunksFrom(lines, i + 1, chunks,
                    Cat(currentChunk, << lines[i], << >> >>),
                    currentLines + 1, maxLines)

splitContentIntoChunks(content, maxLines) ==
    ChunksFrom(content, 1, << >>, EmptyText, 0, maxLines)

\* the export lines of createTypesIndexFile / createGenericIndexFile
IndexExports(files) ==
    LET kept == SelectSeq(files, LAMBDA file : ~Includes(file, << "index" >>))
        exports == [i \in 1..Len(kept) |->
                        Line(<< "export", " ", "*", " ", "from", " ", "'./" >>
                             \o BasenameNoExt(kept[i], << ".ts" >>)
                             \o << "'", ";" >>)]
    IN  Cat(Join(exports, NL), NL)

createTypesIndexFile(files) == IndexExports(files)

createGenericIndexFile(baseName, files) == IndexExports(files)

\* a flattened string as a text again
RECURSIVE Unflatten(_)
Unflatten(s) ==
    LET ix == {i \in 1..Len(s) : s[i] = "\n"}
    IN  IF ix = {} THEN << s >>
        ELSE LET c == CHOOSE i \in ix : \A j \in ix : i <= j
             IN  << SubSeq(s, 1, c - 1) >> \o Unflatten(SubSeq(s, c + 1, Len(s)))

\* /export\s+enum\s+\w+[^}]+}/ at index i: the index of its closing brace, or 0
EnumEndAt(s, i) ==
    IF ~(i + 1 <= Len(s) /\ s[i] = "export" /\ IsWs(s[i + 1])) THEN 0
    ELSE LET e == SkipWs(s, i + 1) IN
         IF ~(e + 1 <= Len(s) /\ s[e] = "enum" /\ IsWs(s[e + 1])) THEN 0
         ELSE LET w == SkipWs(s, e + 1)
                  cs == {c \in (w + 2)..Len(s) :
                            s[c] = "}" /\ \A d \in (w + 1)..(c - 1) : s[d] # "}"}
              IN  IF w <= Len(s) /\ s[w] \in Words /\ cs # {}
                  THEN CHOOSE c \in cs : TRUE ELSE 0

\* content.match(/export\s+enum\s+\w+[^}]+}/g)
RECURSIVE EnumsFrom(_, _)
EnumsFrom(s, i) ==
    IF i > Len(s) THEN << >>
    ELSE IF EnumEndAt(s, i) > 0
    THEN << Unflatten(SubSeq(s, i, EnumEndAt(s, i))) >>
         \o EnumsFrom(s, EnumEndAt(s, i) + 1)
    ELSE EnumsFrom(s, i + 1)

\* the tokens whose lower case holds one of the basicTypes, lower-cased
BasicTypeTokens == {"string", "null", "Status"}

extractCommonTypes(content) ==
    LET basic(i) ==
            /\ \/ Includes(content[i], << "export", " ", "type" >>)
               \/ Includes(content[i], << "export", " ", "interface" >>)
            /\ \E k \in 1..Len(content[i]) : content[i][k] \in BasicTypeTokens
        RECURSIVE linesFrom(_)
        linesFrom(i) ==
            IF i > Len(content) THEN << >>
            ELSE (IF basic(i) THEN << Line(TrimLine(content[i])) >> ELSE << >>)
                 \o linesFrom(i + 1)
    IN  EnumsFrom(Flatten(content), 1) \o linesFrom(1)

\* the tokens each pattern of refactorTypesFile matches in
BotPattern == {"Bot"}
DealPattern == {"Deal"}
ExchangePattern == {}
UserPattern == {}
ApiPattern == {"api"}

RECURSIVE TypesFrom(_, _, _, _, _, _, _)
TypesFrom(lines, i, types, currentType, inType, braceCount, pattern) ==
    IF i > Len(lines) THEN types
    ELSE LET line == lines[i] IN
         IF /\ \/ Includes(line, << "export", " ", "interface" >>)
               \/ Includes(line, << "export", " ", "type" >>)
               \/ Includes(line, << "export", " ", "enum" >>)
            /\ \E k \in 1..Len(line) : line[k] \in pattern
         THEN TypesFrom(lines, i + 1, types, Line(line), TRUE,
                        IF Includes(line, << "{" >>) THEN 1 ELSE 0, pattern)
         ELSE IF inType
         THEN LET bc == braceCount + BraceDelta(line)
                  ct == Cat(currentType, << << >>, line >>)
              IN  IF bc <= 0 \/ Includes(line, << ";" >>)
                  THEN TypesFrom(lines, i + 1, Append(types, TrimText(ct)),
                                 EmptyText, FALSE, bc, pattern)
                  ELSE TypesFrom(lines, i + 1, types, ct, TRUE, bc, pattern)
         ELSE TypesFrom(lines, i + 1, types, currentType, inType, braceCount, pattern)

extractTypesByPattern(content, pattern) ==
    TypesFrom(content, 1, << >>, EmptyText, FALSE, 0, pattern)

\* type.match(/(?:export\s+)?(?:type|interface|enum)\s+(\w+)/), on each common type
extractCommonTypeNames(commonTypes) ==
    LET nameAt(s, i) ==
            /\ s[i] \in {"type", "interface", "enum"}
            /\ i + 1 <= Len(s) /\ IsWs(s[i + 1])
            /\ SkipWs(s, i + 1) <= Len(s) /\ s[SkipWs(s, i + 1)] \in Words
        hits(s) == {i \in 1..Len(s) : nameAt(s, i)}
        first(s) == CHOOSE i \in hits(s) : \A j \in hits(s) : i <= j
        matched == SelectSeq(commonTypes, LAMBDA t : hits(Flatten(t)) # {})
    IN  [i \in 1..Len(matched) |->
            LET s == Flatten(matched[i]) IN s[SkipWs(s, first(s) + 1)]]

(***************************************************************************)
(* Verification.                                                           *)
(***************************************************************************)
\* d is the disk; the three loops of the code run one after the other
verifyRefactoring(d, files) ==
    IF \E i \in 1..Len(files) : files[i] \notin DOMAIN d
    THEN [success |-> FALSE, error |-> "Created file does not exist"]
    ELSE IF \E i \in 1..Len(files) : IsBlankText(d[files[i]])
    THEN [success |-> FALSE, error |-> "Created file is empty"]
    ELSE IF \E i \in 1..Len(files) :
                CountInText(d[files[i]], "{") # CountInText(d[files[i]], "}")
    THEN [success |-> FALSE, error |-> "Syntax error in file - unbalanced braces"]
    ELSE [success |-> TRUE, error |-> "none"]

(***************************************************************************)
(* The synthesis functions, as the list of the writes they do in order:    *)
(* path is the file written, text its content, push whether the path is    *)
(* pushed onto the function's list of new files after the write.           *)
(***************************************************************************)
Step(path, text, push) == [path |-> path, text |-> text, push |-> push]

\* the paths of the steps of a list
PathsOf(steps) == [i \in 1..Len(steps) |-> steps[i].path]

\* the steps, and after them the write of an index file made from their paths
WithGenericIndex(steps, indexFile, baseName) ==
    Append(steps, Step(indexFile, createGenericIndexFile(baseName, PathsOf(steps)), TRUE))

\* one file per chunk: `${baseName}-part${i + 1}${extension}` in dir
ChunkSteps(dir, baseName, extension, chunks) ==
    [i \in 1..Len(chunks) |->
        Step(PathJoin(dir, baseName \o << "-", "part", ToString(i) >> \o extension),
             chunks[i], TRUE)]

\* the non-React branch; the .tsx/.jsx branch (refactorReactComponent) is not
\* part of this model, which gives run no .tsx or .jsx file
refactorGenericFile(filePath, content, maxLines) ==
    WithGenericIndex(
        ChunkSteps(Dirname(filePath), BaseNameOf(filePath), Extname(filePath),
                   splitContentIntoChunks(content, maxLines)),
        PathJoin(Dirname(filePath),
                 BaseNameOf(filePath) \o << "-", "index" >> \o Extname(filePath)),
        BaseNameOf(filePath))

\* `import { ${names.join(', ')} } from './common';\n\n`
CommonImport(names) ==
    Cat(Line(<< "import", " ", "{", " " >>
             \o Flatten(Join([i \in 1..Len(names) |-> Line(<< names[i] >>)],
                             Line(<< ",", " " >>)))
             \o << " ", "}", " ", "from", " ", "'./", "common", "'", ";" >>),
        NL2)

\* the write of one domain file of refactorTypesFile, if it has types
TypesGroup(dir, name, types, header) ==
    IF Len(types) > 0
    THEN << Step(PathJoin(dir, << name, ".ts" >>), Cat(header, Join(types, NL2)), TRUE) >>
    ELSE << >>

\* the writes of refactorTypesFile before its index file
TypesSteps(dir, content, commonTypes, header) ==
    (IF Len(commonTypes) > 0
     THEN << Step(PathJoin(dir, << "common", ".ts" >>), Join(commonTypes, NL2), TRUE) >>
     ELSE << >>)
    \o TypesGroup(dir, "bot", extractTypesByPattern(content, BotPattern), header)
    \o TypesGroup(dir, "deal", extractTypesByPattern(content, DealPattern), header)
    \o TypesGroup(dir, "exchange", extractTypesByPattern(content, ExchangePattern),
                  header)
    \o TypesGroup(dir, "user", extractTypesByPattern(content, UserPattern), header)
    \o TypesGroup(dir, "api", extractTypesByPattern(content, ApiPattern), header)

WithTypesIndex(steps, indexFile) ==
    Append(steps, Step(indexFile, createTypesIndexFile(PathsOf(steps)), TRUE))

TypesWrites(dir, content, commonTypes) ==
    WithTypesIndex(
        TypesSteps(dir, content, commonTypes,
                   CommonImport(extractCommonTypeNames(commonTypes))),
        PathJoin(dir, << "index", ".ts" >>))

refactorTypesFile(filePath, content) ==
    TypesWrites(Dirname(filePath), content, extractCommonTypes(content))

\* the dispatch of performRefactoring; the model holds no GraphQL file
Synthesis(filePath, content, maxLines) ==
    IF Includes(filePath, << "types" >>) /\ Includes(filePath, << "index", ".ts" >>)
    THEN refactorTypesFile(filePath, content)
    ELSE refactorGenericFile(filePath, content, maxLines)

\* the write of one part file of the React split, if it has blocks
PartStep(componentDir, fileName, blocks, suffix, ext, text) ==
    IF Len(blocks) > 0
    THEN << Step(PathJoin(componentDir, fileName \o << "-", suffix >> \o ext),
                 text, TRUE) >>
    ELSE << >>

\* the writes of the React split before its main file; required holds what
\* getRequiredImports gave for the types, constants, utilities and sub-components
PartSteps(componentDir, fileName, extension, parsed, required) ==
    PartStep(componentDir, fileName, parsed.types, "types", << ".ts" >>,
             generateTypesFile(parsed.types, required[1]))
    \o PartStep(componentDir, fileName, parsed.constants, "constants", << ".ts" >>,
                generateConstantsFile(parsed.constants, required[2]))
    \o PartStep(componentDir, fileName, parsed.utilities, "utils", << ".ts" >>,
                generateUtilsFile(parsed.utilities, required[3]))
    \o PartStep(componentDir, fileName, parsed.subComponents, "components", extension,
                generateComponentsFile(parsed.subComponents, required[4], fileName))

WithMain(steps, mainFile, fileName, mainComponent, imports) ==
    Append(steps,
           Step(mainFile,
                generateMainComponentFile(mainComponent, imports, fileName,
                                          PathsOf(steps)),
                TRUE))

WithIndex(steps, indexFile, fileName) ==
    Append(steps, Step(indexFile, generateIndexFile(fileName, PathsOf(steps)), TRUE))

\* the forwarding file written before the other files
WithOriginalFirst(steps, originalPath, fileName, componentDir) ==
    << Step(originalPath, createUpdatedOriginalFile(fileName, componentDir), FALSE) >>
        \o steps

\* the last write: the original becomes a forwarding file
WithOriginal(steps, originalPath, fileName, componentDir) ==
    Append(steps,
           Step(originalPath, createUpdatedOriginalFile(fileName, componentDir), FALSE))

ReactWrites(originalPath, componentDir, fileName, extension, parsed, required) ==
    WithOriginal(
        WithIndex(
            WithMain(PartSteps(componentDir, fileName, extension, parsed, required),
                     PathJoin(componentDir,
                              fileName \o << "-", "main" >> \o extension),
                     fileName, parsed.mainComponent, required[5]),
            PathJoin(componentDir, << "index" >> \o extension), fileName),
        originalPath, fileName, componentDir)

\* getRequiredImports for each text of the split, in the order of the code
RequiredImports(parsed) ==
    [k \in 1..5 |->
        getRequiredImports(
            << Join(parsed.types, NL), Join(parsed.constants, NL),
               Join(parsed.utilities, NL), Join(parsed.subComponents, NL),
               parsed.mainComponent >>[k],
            parsed.imports)]

ReactSplit(originalPath, componentDir, fileName, extension, parsed) ==
    ReactWrites(originalPath, componentDir, fileName, extension, parsed,
                RequiredImports(parsed))

GenericSplit(originalPath, fileDir, fileName, extension, chunks) ==
    WithOriginal(
        WithGenericIndex(ChunkSteps(fileDir, fileName, extension, chunks),
                         PathJoin(fileDir, << "index" >> \o extension), fileName),
        originalPath, fileName, fileDir)

\* the directory the split files go to
SplitDir(originalPath) == PathJoin(Dirname(originalPath), BaseNameOf(originalPath))

\* the writes of performIntelligentSplit after its ensureDir
SplitSynthesis(originalPath, content, maxLines) ==
    IF Extname(originalPath) \in {<< ".tsx" >>, << ".jsx" >>}
    THEN ReactSplit(originalPath, SplitDir(originalPath), BaseNameOf(originalPath),
                    Extname(originalPath), parseReactFile(content))
    ELSE GenericSplit(originalPath, SplitDir(originalPath), BaseNameOf(originalPath),
                      Extname(originalPath), splitContentIntoChunks(content, maxLines))

(***************************************************************************)
(* The analysis behind a dry run.                                          *)
(***************************************************************************)
\* the tokens starting with '//', '/*' or '*'
CommentTokens ==
    {"// Type definitions", "// Constants", "// Utility functions",
     "// Sub-components for ", "// Main component",
     "// Auto-generated index file for ",
     "// This file has been refactored and split into multiple files",
     "// The original functionality is now exported from the ", "*",
     "// note", "//"}

\* the tokens that hold 'function', '=', 'jsx' or 'JSX', '<'
FunctionTokens ==
    {"function", "// The original functionality is now exported from the "}
EqualsTokens == {"=", "=>"}
JsxTokens == {"JSX.Element"}
AngleTokens == {"<"}

HasToken(line, toks) == \E k \in 1..Len(line) : line[k] \in toks

\* content.substring(content.indexOf(line)), for a line found in content
RestFrom(content, line) ==
    LET ks == {k \in 1..Len(content) : Includes(content[k], line)}
        k == CHOOSE a \in ks : \A b \in ks : a <= b
        ms == {m \in 0..(Len(content[k]) - Len(line)) :
                  \A j \in 1..Len(line) : content[k][m + j] = line[j]}
        m == CHOOSE a \in ms : \A b \in ms : a <= b
    IN  << SubSeq(content[k], m + 1, Len(content[k])) >>
        \o SubSeq(content, k + 1, Len(content))

\* the lines a statement starting at line i takes up to its ';'
StatementLines(lines, i) ==
    LET ns == {n \in 1..Len(lines) :
                  i + n > Len(lines) \/ Includes(lines[i + n - 1], << ";" >>)}
    IN  CHOOSE n \in ns : \A k \in ns : n <= k

EmptyStructure ==
    [interfaces |-> 0, constants |-> 0, functions |-> 0, components |-> 0,
     largestFunction |-> 0]

RECURSIVE StructureFrom(_, _, _)
StructureFrom(lines, i, st) ==
    IF i > Len(lines) THEN st
    ELSE LET line == TrimLine(lines[i])
             named == Includes(line, << "function", " " >>)
                      \/ Includes(line, << "const", " " >>)
             rest == RestFrom(lines, line)
         IN
         IF Len(line) = 0 THEN StructureFrom(lines, i + 1, st)
         ELSE IF line[1] \in CommentTokens THEN StructureFrom(lines, i + 1, st)
         ELSE IF line[1] = "import"
         THEN StructureFrom(lines, i + StatementLines(lines, i), st)
         ELSE IF Includes(line, << "interface", " " >>)
         THEN StructureFrom(lines, findEndOfTypeDefinition(lines, i) + 1,
                            [st EXCEPT !.interfaces = @ + 1])
         ELSE IF Includes(line, << "type", " " >>) /\ HasToken(line, EqualsTokens)
         THEN StructureFrom(lines, findEndOfTypeDefinition(lines, i) + 1, st)
         ELSE IF Includes(line, << "const", " " >>) /\ ~HasToken(line, FunctionTokens)
         THEN StructureFrom(lines, i + StatementLines(lines, i),
                            [st EXCEPT !.constants = @ + 1])
         ELSE IF /\ named
                 /\ \/ Includes(line, << "React." >>)
                    \/ Includes(line, << "export", " ", "function" >>)
                    \/ TextIncludes(rest, << "return", " ", "(" >>)
                    \/ \E k \in 1..Len(rest) : HasToken(rest[k], JsxTokens)
                    \/ /\ Includes(line, << "export" >>)
                       /\ \E k \in 1..Len(rest) : HasToken(rest[k], AngleTokens)
         THEN StructureFrom(lines, findEndOfFunction(lines, i) + 1,
                            [st EXCEPT !.components = @ + 1])
         ELSE IF \/ Includes(line, << "function", " " >>)
                 \/ /\ Includes(line, << "const", " " >>)
                    /\ Includes(line, << " ", "=>", " " >>)
         THEN LET functionLines == findEndOfFunction(lines, i) - i + 1
              IN  StructureFrom(lines, findEndOfFunction(lines, i) + 1,
                      [st EXCEPT !.functions = @ + 1,
                                 !.largestFunction =
                                     IF functionLines > @ THEN functionLines ELSE @])
         ELSE IF Includes(line, << "class", " " >>)
         THEN StructureFrom(lines, findEndOfFunction(lines, i) + 1, st)
         ELSE StructureFrom(lines, i + 1, st)

\* the counts suggestSplitStrategy reads, and totalLines
analyzeFileStructure(content) ==
    [structure |-> StructureFrom(content, 1, EmptyStructure),
     totalLines |-> Len(content)]

\* strategy.files
suggestSplitStrategy(fileStructure, filePath, maxLines) ==
    LET extension == Extname(filePath)
        fileName == BasenameNoExt(filePath, extension)
        st == fileStructure.structure
        isReactComponent == extension \in {<< ".tsx" >>, << ".jsx" >>}
        named(suffix, ext) == fileName \o << "-", suffix >> \o ext
        groupCount == (st.constants + 24) \div 25
        fileCount == (fileStructure.totalLines + maxLines - 1) \div maxLines
    IN  IF isReactComponent /\ (st.components > 0 \/ st.functions > 0)
        THEN (IF st.interfaces > 3 THEN << named("types", << ".ts" >>) >> ELSE << >>)
             \o (IF st.constants > 20
                 THEN << named("constants", << ".ts" >>) >> ELSE << >>)
             \o (IF st.functions > 10 THEN << named("utils", << ".ts" >>) >> ELSE << >>)
             \o (IF st.components > 0 \/ st.largestFunction > 300
                 THEN << named("components", extension) >> ELSE << >>)
             \o << named("main", extension), named("index", extension) >>
        ELSE IF st.constants > 50
        THEN [i \in 1..groupCount |->
                 fileName \o << "-", "constants", "-", ToString(i), ".ts" >>]
             \o << named("index", << ".ts" >>) >>
        ELSE [i \in 1..fileCount |->
                 fileName \o << "-", "part", ToString(i) >> \o extension]
             \o << named("index", extension) >>

\* suggestedFiles of analyzeTypesFile
analyzeTypesFile(filePath) ==
    LET suffixes == << "common", "bot", "deal", "exchange", "user", "api", "index" >>
    IN  [i \in 1..Len(suffixes) |->
            Dirname(filePath) \o << "/", suffixes[i], ".ts" >>]

\* suggestedFiles of analyzeFile; the model holds no GraphQL file
analyzeFile(filePath, content, maxLines) ==
    IF Includes(filePath, << "types" >>) /\ Includes(filePath, << "index", ".ts" >>)
    THEN analyzeTypesFile(filePath)
    ELSE LET files == suggestSplitStrategy(analyzeFileStructure(content),
                                           filePath, maxLines)
         IN  [i \in 1..Len(files) |-> Dirname(filePath) \o << "/" >> \o files[i]]

(***************************************************************************)
(* The file system.  A rejected write either leaves its target as it was   *)
(* or leaves it truncated: fs.writeFile and fs.copy open the target for    *)
(* writing before they write.                                              *)
(***************************************************************************)
NoPath == << >>

Put(d, path, text) ==
    [p \in DOMAIN d \cup {path} |-> IF p = path THEN text ELSE d[p]]

Remove(d, path) == [p \in DOMAIN d \ {path} |-> d[p]]

RejectedWrite(d, path) == {d, Put(d, path, EmptyText)}

BackupDir == << ".refactor-backups" >>

\* createBackup without its fs.copy
createBackupWithoutCopy(d, ds, filePath, t) ==
    {[ok |-> TRUE, disk |-> d, dirs |-> ds \cup {BackupDir},
      path |-> PathJoin(BackupDir,
                        Basename(filePath) \o << "-", ToString(t), ".backup" >>),
      wrote |-> NoPath]}

\* the outcomes of createBackup(filePath) when the clock reads t: the directory
\* cannot be made, the copy is rejected, or the copy is made
createBackup(d, ds, filePath, t) ==
    LET backupName == Basename(filePath) \o << "-", ToString(t), ".backup" >>
        path == PathJoin(BackupDir, backupName)
        made == ds \cup {BackupDir}
    IN  {[ok |-> FALSE, disk |-> d, dirs |-> ds, path |-> NoPath, wrote |-> NoPath]}
        \cup {[ok |-> FALSE, disk |-> r, dirs |-> made, path |-> NoPath,
               wrote |-> IF r = d THEN NoPath ELSE path] :
                 r \in RejectedWrite(d, path)}
        \cup (IF filePath \in DOMAIN d
              THEN {[ok |-> TRUE, disk |-> Put(d, path, d[filePath]), dirs |-> made,
                     path |-> path, wrote |-> path]}
              ELSE {})

\* the log entry of a createBackup call that wrote: fresh says the path was new
BackupLog(log, d, out) ==
    IF out.wrote = NoPath THEN log
    ELSE Append(log, [path |-> out.wrote, fresh |-> out.wrote \notin DOMAIN d])

\* rollbackRefactoring's restore: fs.copy(backupPath, originalFile) if the backup exists
Restore(d, originalFile, backup) ==
    IF backup \in DOMAIN d THEN Put(d, originalFile, d[backup]) ELSE d

(***************************************************************************)
(* The project: its files and the lines they are made of.                  *)
(***************************************************************************)
GenFile == << "lib", "/", "util", ".ts" >>
OtherFile == << "app", "/", "util", ".ts" >>
TypesFile == << "types", "/", "index", ".ts" >>
TsxFile == << "ui", "/", "App", ".tsx" >>
MissingFile == << "lib", "/", "x", ".ts" >>

BlankLine == << >>
CloseLine == << "}" >>
ConstLine == << "const", " ", "x", " ", "=", " ", "5", ";" >>
HelperLine ==
    << "function", " ", "helper", "(", ")", " ", "{", " ", "return", " ", "1", ";",
       " ", "}" >>
OpenLine == << "function", " ", "helper", "(", ")", " ", "{" >>
InterfaceLine == << "interface", " ", "Foo", " ", "{" >>
AppLine ==
    << "export", " ", "function", " ", "App", "(", ")", " ", "{", " ", "return", " ",
       "null", ";", " ", "}" >>
ImportLine == << "import", " ", "{", " ", "Foo", " ", "}", " ", "from", " ", "'x'", ";" >>
StatusLine == << "export", " ", "interface", " ", "Status", " ", "{" >>
BotLine == << "export", " ", "type", " ", "Bot", " ", "=", " ", "string", ";" >>
DealLine == << "export", " ", "interface", " ", "Deal", " ", "{" >>

LinesOf(file) ==
    IF file = TsxFile
    THEN {BlankLine, InterfaceLine, CloseLine, ConstLine, HelperLine, AppLine,
          ImportLine}
    ELSE IF file = TypesFile
    THEN {BlankLine, StatusLine, BotLine, DealLine, CloseLine}
    ELSE {BlankLine, ConstLine, OpenLine, CloseLine}

\* the texts of at most n lines a file can hold
SourcesOf(file, n) == UNION {[1..k -> LinesOf(file)] : k \in 1..n}

DirsOf(d) == {Dirname(p) : p \in DOMAIN d}

\* the projects of one file, and those of two files of the same base name
Projects(n) ==
    UNION {{(f :> src) : src \in SourcesOf(f, n)} :
               f \in {GenFile, TypesFile, TsxFile}}
    \cup {(GenFile :> src) @@ (OtherFile :> << ConstLine >>) :
              src \in SourcesOf(GenFile, 1)}

(***************************************************************************)
(* The engine.                                                             *)
(***************************************************************************)
NoRollback == [site |-> "none", i |-> 0, error |-> "none", done |-> FALSE]

Result(file, files, success, error, analysis) ==
    [originalFile |-> file, newFiles |-> files, success |-> success,
     error |-> error, analysis |-> analysis]

InitWith(projects, n) ==
    /\ disk \in projects
    /\ dirs = DirsOf(disk)
    /\ now = 0
    /\ pc = "idle"
    /\ opts = [call |-> "none", dryRun |-> FALSE, createBackups |-> TRUE]
    /\ queue = << >>
    /\ cur = NoPath
    /\ plan = << >>
    /\ newFiles = << >>
    /\ createdFiles = << >>
    /\ backupPath = NoPath
    /\ rb = NoRollback
    /\ results = << >>
    /\ outcome = "none"
    /\ calls = n
    /\ disk0 = disk
    /\ dirs0 = dirs
    /\ written = {}
    /\ backups = << >>
    /\ rbFailed = FALSE

Init == InitWith(Projects(MaxSrcLines), 1)

\* the state a call of run or splitFile starts a file transaction in
BeginFile(file) ==
    /\ cur' = file
    /\ newFiles' = << >>
    /\ createdFiles' = << >>
    /\ backupPath' = NoPath
    /\ rb' = NoRollback
    /\ disk0' = disk
    /\ written' = {}
    /\ rbFailed' = FALSE

\* the files run can be given: one file (specificFile), or what scan() lists
RunQueues ==
    LET ts == {f \in {GenFile, OtherFile, TypesFile} : f \in DOMAIN disk}
    IN  {<< f >> : f \in ts}
        \cup (IF {GenFile, OtherFile} \subseteq ts
              THEN {<< GenFile, OtherFile >>} ELSE {})

\* run(options), up to its loop over filesToRefactor
Run ==
    /\ pc = "idle" /\ calls > 0
    /\ \E o \in [call : {"run"}, dryRun : BOOLEAN, createBackups : BOOLEAN] :
           opts' = o
    /\ \E q \in RunQueues : queue' = q
    /\ pc' = "run_loop"
    /\ calls' = calls - 1
    /\ results' = << >>
    /\ outcome' = "running"
    /\ dirs0' = dirs
    /\ disk0' = disk
    /\ backups' = << >>
    /\ written' = {}
    /\ rbFailed' = FALSE
    /\ cur' = NoPath
    /\ UNCHANGED << disk, dirs, now, plan, newFiles, createdFiles, backupPath, rb >>

\* run({specificFile}) for a file that does not exist: throws before anything else
RunMissing ==
    /\ pc = "idle" /\ calls > 0
    /\ MissingFile \notin DOMAIN disk
    /\ \E o \in [call : {"run"}, dryRun : BOOLEAN, createBackups : BOOLEAN] :
           opts' = o
    /\ calls' = calls - 1
    /\ results' = << >>
    /\ outcome' = "threw"
    /\ dirs0' = dirs
    /\ disk0' = disk
    /\ backups' = << >>
    /\ written' = {}
    /\ rbFailed' = FALSE
    /\ cur' = MissingFile
    /\ UNCHANGED << disk, dirs, now, pc, queue, plan, newFiles, createdFiles,
                    backupPath, rb >>

\* the loop body of run without its dry-run branch
RunBranchWithoutDryRun(o) == IF o.createBackups THEN "run_backup" ELSE "pr_backup"

\* where the loop body of run goes for a file
RunBranch(o) ==
    IF o.dryRun THEN "run_dry"
    ELSE IF o.createBackups THEN "run_backup" ELSE "pr_backup"

\* the loop of run taking its next file without awaiting the previous one
RunNextFileWithoutAwait ==
    /\ pc \in {"run_loop", "pr_write"} /\ queue # << >>
    /\ BeginFile(Head(queue))
    /\ queue' = Tail(queue)
    /\ pc' = RunBranch(opts)
    /\ UNCHANGED << disk, dirs, now, opts, plan, results, outcome, calls, dirs0,
                    backups >>

\* the loop of run takes its next file
RunNextFile ==
    /\ pc = "run_loop" /\ queue # << >>
    /\ BeginFile(Head(queue))
    /\ queue' = Tail(queue)
    /\ pc' = RunBranch(opts)
    /\ UNCHANGED << disk, dirs, now, opts, plan, results, outcome, calls, dirs0,
                    backups >>

\* the loop of run is over: return results
RunReturn ==
    /\ pc = "run_loop" /\ queue = << >>
    /\ pc' = "idle"
    /\ outcome' = "returned"
    /\ UNCHANGED << disk, dirs, now, opts, queue, cur, plan, newFiles, createdFiles,
                    backupPath, rb, results, calls, disk0, dirs0, written, backups,
                    rbFailed >>

\* the dry-run branch of the loop
RunDry ==
    /\ pc = "run_dry"
    /\ results' =
           Append(results,
                  IF cur \in DOMAIN disk
                  THEN Result(cur, analyzeFile(cur, disk[cur], ConfigMaxLines),
                              TRUE, "none", TRUE)
                  ELSE Result(cur, << >>, FALSE, "read", FALSE))
    /\ pc' = "run_loop"
    /\ UNCHANGED << disk, dirs, now, opts, queue, cur, plan, newFiles, createdFiles,
                    backupPath, rb, outcome, calls, disk0, dirs0, written, backups,
                    rbFailed >>

\* run's own createBackup(file.path) in a loop without the catch that pushes
\* the failed result
RunBackupWithoutCatch ==
    /\ pc = "run_backup"
    /\ \E t \in now..MaxClock : \E out \in createBackup(disk, dirs, cur, t) :
           /\ now' = t
           /\ disk' = out.disk
           /\ dirs' = out.dirs
           /\ backups' = BackupLog(backups, disk, out)
           /\ pc' = IF out.ok THEN "pr_backup" ELSE "run_loop"
    /\ UNCHANGED << opts, queue, cur, plan, newFiles, createdFiles, backupPath, rb,
                    results, outcome, calls, disk0, dirs0, written, rbFailed >>

\* run's own createBackup(file.path); a throw lands in the catch of the loop
RunBackup ==
    /\ pc = "run_backup"
    /\ \E t \in now..MaxClock : \E out \in createBackup(disk, dirs, cur, t) :
           /\ now' = t
           /\ disk' = out.disk
           /\ dirs' = out.dirs
           /\ backups' = BackupLog(backups, disk, out)
           /\ IF out.ok
              THEN /\ pc' = "pr_backup"
                   /\ UNCHANGED results
              ELSE /\ pc' = "run_loop"
                   /\ results' = Append(results,
                                    Result(cur, << >>, FALSE, "backup", FALSE))
    /\ UNCHANGED << opts, queue, cur, plan, newFiles, createdFiles, backupPath, rb,
                    outcome, calls, disk0, dirs0, written, rbFailed >>

\* refactorFile: read the file, then performRefactoring up to its createBackup;
\* a throw here lands in the catch of refactorFile or of the loop of run
PrBackup ==
    /\ pc = "pr_backup"
    /\ IF cur \notin DOMAIN disk
       THEN /\ results' = Append(results, Result(cur, << >>, FALSE, "read", FALSE))
            /\ pc' = "run_loop"
            /\ UNCHANGED << disk, dirs, now, backups, backupPath, plan >>
       ELSE \E t \in now..MaxClock : \E out \in createBackup(disk, dirs, cur, t) :
                /\ now' = t
                /\ disk' = out.disk
                /\ dirs' = out.dirs
                /\ backups' = BackupLog(backups, disk, out)
                /\ IF out.ok
                   THEN /\ backupPath' = out.path
                        /\ plan' = Synthesis(cur, disk[cur], ConfigMaxLines)
                        /\ pc' = "pr_write"
                        /\ UNCHANGED results
                   ELSE /\ results' = Append(results,
                                         Result(cur, << >>, FALSE, "backup", FALSE))
                        /\ pc' = "run_loop"
                        /\ UNCHANGED << backupPath, plan >>
    /\ UNCHANGED << opts, queue, cur, newFiles, createdFiles, rb, outcome, calls,
                    disk0, dirs0, written, rbFailed >>

\* the next fs.writeFile of the synthesis function succeeds
PrWrite ==
    /\ pc = "pr_write" /\ plan # << >>
    /\ disk' = Put(disk, Head(plan).path, Head(plan).text)
    /\ newFiles' = IF Head(plan).push THEN Append(newFiles, Head(plan).path)
                   ELSE newFiles
    /\ written' = written \cup {Head(plan).path}
    /\ plan' = Tail(plan)
    /\ UNCHANGED << dirs, now, pc, opts, queue, cur, createdFiles, backupPath, rb,
                    results, outcome, calls, disk0, dirs0, backups, rbFailed >>

\* the next fs.writeFile is rejected: the synthesis function throws into the
\* catch of performRefactoring, whose createdFiles is still empty
PrWriteRejected ==
    /\ pc = "pr_write" /\ plan # << >>
    /\ \E r \in RejectedWrite(disk, Head(plan).path) :
           /\ disk' = r
           /\ written' = IF r = disk THEN written
                         ELSE written \cup {Head(plan).path}
    /\ plan' = << >>
    /\ rb' = [site |-> "catch", i |-> 1, error |-> "write", done |-> FALSE]
    /\ pc' = "rollback"
    /\ UNCHANGED << dirs, now, opts, queue, cur, newFiles, createdFiles, backupPath,
                    results, outcome, calls, disk0, dirs0, backups, rbFailed >>

\* the synthesis function returns, createdFiles takes its newFiles, and
\* verifyRefactoring passes: performRefactoring returns the successful result
PrVerified ==
    /\ pc = "pr_write" /\ plan = << >>
    /\ verifyRefactoring(disk, newFiles).success
    /\ createdFiles' = newFiles
    /\ results' = Append(results, Result(cur, newFiles, TRUE, "none", FALSE))
    /\ pc' = "run_loop"
    /\ UNCHANGED << disk, dirs, now, opts, queue, cur, plan, newFiles, backupPath,
                    rb, outcome, calls, disk0, dirs0, written, backups, rbFailed >>

\* ... and verifyRefactoring fails: rollbackRefactoring is called
PrVerifyFailed ==
    /\ pc = "pr_write" /\ plan = << >>
    /\ ~verifyRefactoring(disk, newFiles).success
    /\ createdFiles' = newFiles
    /\ rb' = [site |-> "verify", i |-> 1,
              error |-> verifyRefactoring(disk, newFiles).error, done |-> FALSE]
    /\ pc' = "rollback"
    /\ UNCHANGED << disk, dirs, now, opts, queue, cur, plan, newFiles, backupPath,
                    results, outcome, calls, disk0, dirs0, written, backups,
                    rbFailed >>

\* rollbackRefactoring throws.  Called after a failed verification, the throw
\* is caught by the catch of performRefactoring, which calls it again; called
\* in that catch, the throw leaves performRefactoring and refactorFile turns
\* it into a failed result
RollbackThrows ==
    /\ rbFailed' = TRUE
    /\ IF rb.site = "verify"
       THEN /\ rb' = [site |-> "catch", i |-> 1, error |-> "rollback",
                      done |-> FALSE]
            /\ pc' = "rollback"
            /\ UNCHANGED results
       ELSE /\ rb' = [rb EXCEPT !.error = "rollback"]
            /\ pc' = "run_loop"
            /\ results' = Append(results,
                             Result(cur, << >>, FALSE, "rollback", FALSE))

\* a loop that removes only the files the transaction made new
RbRemoveOnlyNew ==
    /\ pc = "rollback" /\ rb.i <= Len(createdFiles)
    /\ disk' = IF createdFiles[rb.i] \in DOMAIN disk \ DOMAIN disk0
               THEN Remove(disk, createdFiles[rb.i]) ELSE disk
    /\ rb' = [rb EXCEPT !.i = @ + 1]
    /\ UNCHANGED << dirs, now, pc, opts, queue, cur, plan, newFiles, createdFiles,
                    backupPath, results, outcome, calls, disk0, dirs0, written,
                    backups, rbFailed >>

\* rollbackRefactoring: one turn of the loop over createdFiles
RbRemove ==
    /\ pc = "rollback" /\ rb.i <= Len(createdFiles)
    /\ disk' = IF createdFiles[rb.i] \in DOMAIN disk
               THEN Remove(disk, createdFiles[rb.i]) ELSE disk
    /\ rb' = [rb EXCEPT !.i = @ + 1]
    /\ UNCHANGED << dirs, now, pc, opts, queue, cur, plan, newFiles, createdFiles,
                    backupPath, results, outcome, calls, disk0, dirs0, written,
                    backups, rbFailed >>

\* fs.remove throws
RbRemoveFails ==
    /\ pc = "rollback" /\ rb.i <= Len(createdFiles)
    /\ createdFiles[rb.i] \in DOMAIN disk
    /\ RollbackThrows
    /\ UNCHANGED << disk, dirs, now, opts, queue, cur, plan, newFiles, createdFiles,
                    backupPath, outcome, calls, disk0, dirs0, written, backups >>

\* rollbackRefactoring: the restore, and the return or rethrow of its caller,
\* which both end in a failed result
RbRestore ==
    /\ pc = "rollback" /\ rb.i > Len(createdFiles)
    /\ disk' = Restore(disk, cur, backupPath)
    /\ rb' = [rb EXCEPT !.done = TRUE]
    /\ results' = Append(results, Result(cur, << >>, FALSE, rb.error, FALSE))
    /\ pc' = "run_loop"
    /\ UNCHANGED << dirs, now, opts, queue, cur, plan, newFiles, createdFiles,
                    backupPath, outcome, calls, disk0, dirs0, written, backups,
                    rbFailed >>

\* fs.copy(backupPath, originalFile) throws
RbRestoreFails ==
    /\ pc = "rollback" /\ rb.i > Len(createdFiles)
    /\ backupPath \in DOMAIN disk
    /\ \E r \in RejectedWrite(disk, cur) : disk' = r
    /\ RollbackThrows
    /\ UNCHANGED << dirs, now, opts, queue, cur, plan, newFiles, createdFiles,
                    backupPath, outcome, calls, disk0, dirs0, written, backups >>

\* the files splitFile can be given
SplitTargets == {GenFile, OtherFile, TypesFile, TsxFile} \cap DOMAIN disk

\* what every call of splitFile starts with
BeginSplit(file, dry) ==
    /\ pc = "idle" /\ calls > 0
    /\ calls' = calls - 1
    /\ opts' = [call |-> "split", dryRun |-> dry, createBackups |-> TRUE]
    /\ BeginFile(file)
    /\ dirs0' = dirs
    /\ backups' = << >>
    /\ queue' = << >>

\* splitFile: fs.existsSync fails
SplitMissing ==
    /\ MissingFile \notin DOMAIN disk
    /\ \E dry \in BOOLEAN : BeginSplit(MissingFile, dry)
    /\ results' = << >>
    /\ outcome' = "threw"
    /\ UNCHANGED << disk, dirs, now, pc, plan >>

\* splitFile with dryRun
SplitDry ==
    /\ \E file \in SplitTargets :
           /\ BeginSplit(file, TRUE)
           /\ results' =
                  LET files == suggestSplitStrategy(analyzeFileStructure(disk[file]),
                                                    file, ConfigMaxLines)
                  IN  << Result(file,
                                [i \in 1..Len(files) |->
                                     PathJoin(Dirname(file), files[i])],
                                TRUE, "none", TRUE) >>
    /\ outcome' = "returned"
    /\ UNCHANGED << disk, dirs, now, pc, plan >>

\* splitFile without dryRun, up to the call of performIntelligentSplit,
\* whose writes are fixed by the content read here
SplitStart ==
    /\ \E file \in SplitTargets :
           /\ BeginSplit(file, FALSE)
           /\ plan' = SplitSynthesis(file, disk[file], ConfigMaxLines)
    /\ results' = << >>
    /\ outcome' = "running"
    /\ pc' = "sp_backup"
    /\ UNCHANGED << disk, dirs, now >>

\* performIntelligentSplit throws out of its catch, and splitFile with it
SplitThrows ==
    /\ pc' = "idle"
    /\ outcome' = "threw"
    /\ plan' = << >>

\* performIntelligentSplit: createBackup
SpBackup ==
    /\ pc = "sp_backup"
    /\ \E t \in now..MaxClock : \E out \in createBackup(disk, dirs, cur, t) :
           /\ now' = t
           /\ disk' = out.disk
           /\ dirs' = out.dirs
           /\ backups' = BackupLog(backups, disk, out)
           /\ IF out.ok
              THEN /\ backupPath' = out.path
                   /\ pc' = "sp_mkdir"
                   /\ UNCHANGED << outcome, plan >>
              ELSE /\ SplitThrows
                   /\ UNCHANGED backupPath
    /\ UNCHANGED << opts, queue, cur, newFiles, createdFiles, rb, results, calls,
                    disk0, dirs0, written, rbFailed >>

\* performIntelligentSplit: fs.ensureDir
SpMkdir ==
    /\ pc = "sp_mkdir"
    /\ dirs' = dirs \cup {SplitDir(cur)}
    /\ pc' = "sp_write"
    /\ UNCHANGED << disk, now, opts, queue, cur, plan, newFiles, createdFiles,
                    backupPath, rb, results, outcome, calls, disk0, dirs0, written,
                    backups, rbFailed >>

\* fs.ensureDir throws; the catch finds createdFiles empty
SpMkdirFails ==
    /\ pc = "sp_mkdir"
    /\ SplitThrows
    /\ UNCHANGED << disk, dirs, now, opts, queue, cur, newFiles, createdFiles,
                    backupPath, rb, results, calls, disk0, dirs0, written, backups,
                    rbFailed >>

\* performIntelligentSplit: the next fs.writeFile succeeds
SpWrite ==
    /\ pc = "sp_write" /\ plan # << >>
    /\ disk' = Put(disk, Head(plan).path, Head(plan).text)
    /\ createdFiles' = IF Head(plan).push THEN Append(createdFiles, Head(plan).path)
                       ELSE createdFiles
    /\ written' = written \cup {Head(plan).path}
    /\ plan' = Tail(plan)
    /\ UNCHANGED << dirs, now, pc, opts, queue, cur, newFiles, backupPath, rb,
                    results, outcome, calls, disk0, dirs0, backups, rbFailed >>

\* the next fs.writeFile is rejected: on to the catch
SpWriteRejected ==
    /\ pc = "sp_write" /\ plan # << >>
    /\ \E r \in RejectedWrite(disk, Head(plan).path) :
           /\ disk' = r
           /\ written' = IF r = disk THEN written
                         ELSE written \cup {Head(plan).path}
    /\ plan' = << >>
    /\ rb' = [site |-> "split", i |-> 1, error |-> "write", done |-> FALSE]
    /\ pc' = "sp_cleanup"
    /\ UNCHANGED << dirs, now, opts, queue, cur, newFiles, createdFiles, backupPath,
                    results, outcome, calls, disk0, dirs0, backups, rbFailed >>

\* performIntelligentSplit returns createdFiles and splitFile its result
SpReturn ==
    /\ pc = "sp_write" /\ plan = << >>
    /\ results' = << Result(cur, createdFiles, TRUE, "none", FALSE) >>
    /\ outcome' = "returned"
    /\ pc' = "idle"
    /\ UNCHANGED << disk, dirs, now, opts, queue, cur, plan, newFiles, createdFiles,
                    backupPath, rb, calls, disk0, dirs0, written, backups, rbFailed >>

\* the catch of performIntelligentSplit: one turn of its loop
SpCleanup ==
    /\ pc = "sp_cleanup" /\ rb.i <= Len(createdFiles)
    /\ disk' = IF createdFiles[rb.i] \in DOMAIN disk
               THEN Remove(disk, createdFiles[rb.i]) ELSE disk
    /\ rb' = [rb EXCEPT !.i = @ + 1]
    /\ UNCHANGED << dirs, now, pc, opts, queue, cur, plan, newFiles, createdFiles,
                    backupPath, results, outcome, calls, disk0, dirs0, written,
                    backups, rbFailed >>

\* fs.remove throws in the catch
SpCleanupFails ==
    /\ pc = "sp_cleanup" /\ rb.i <= Len(createdFiles)
    /\ createdFiles[rb.i] \in DOMAIN disk
    /\ rbFailed' = TRUE
    /\ rb' = [rb EXCEPT !.error = "rollback"]
    /\ SplitThrows
    /\ UNCHANGED << disk, dirs, now, opts, queue, cur, newFiles, createdFiles,
                    backupPath, results, calls, disk0, dirs0, written, backups >>

\* the loop is over: throw error
SpCleanupDone ==
    /\ pc = "sp_cleanup" /\ rb.i > Len(createdFiles)
    /\ rb' = [rb EXCEPT !.done = TRUE]
    /\ SplitThrows
    /\ UNCHANGED << disk, dirs, now, opts, queue, cur, newFiles, createdFiles,
                    backupPath, results, calls, disk0, dirs0, written, backups,
                    rbFailed >>

Next ==
    \/ Run
    \/ RunMissing
    \/ RunNextFile
    \/ RunReturn
    \/ RunDry
    \/ RunBackup
    \/ PrBackup
    \/ PrWrite
    \/ PrWriteRejected
    \/ PrVerified
    \/ PrVerifyFailed
    \/ RbRemove
    \/ RbRemoveFails
    \/ RbRestore
    \/ RbRestoreFails
    \/ SplitMissing
    \/ SplitDry
    \/ SplitStart
    \/ SpBackup
    \/ SpMkdir
    \/ SpMkdirFails
    \/ SpWrite
    \/ SpWriteRejected
    \/ SpReturn
    \/ SpCleanup
    \/ SpCleanupFails
    \/ SpCleanupDone

Spec == Init /\ [][Next]_vars

\* two calls in a row, on the projects a second call says something about
RetryProjects ==
    {(TsxFile :> << ConstLine, AppLine >>), (TsxFile :> << InterfaceLine >>),
     (GenFile :> << ConstLine >>), (GenFile :> << OpenLine >>)}

InitRetry == InitWith(RetryProjects, 2)

SpecRetry == InitRetry /\ [][Next]_vars

\* a file of the project next to one the engine is given, at a path the
\* engine writes to: lib/util-part1.ts and lib/util-index.ts next to
\* lib/util.ts, types/common.ts and types/bot.ts next to types/index.ts
PartFile == << "lib", "/", "util", "-", "part", "1", ".ts" >>
GenIndexFile == << "lib", "/", "util", "-", "index", ".ts" >>
CommonFile == << "types", "/", "common", ".ts" >>
BotFile == << "types", "/", "bot", ".ts" >>

SiblingProjects ==
    {(GenFile :> src) @@ (sib :> << ConstLine >>) :
         src \in SourcesOf(GenFile, MaxSrcLines), sib \in {PartFile, GenIndexFile}}
    \cup {(TypesFile :> src) @@ (sib :> << ConstLine >>) :
              src \in SourcesOf(TypesFile, MaxSrcLines), sib \in {CommonFile, BotFile}}

InitSibling == InitWith(SiblingProjects, 1)

SpecSibling == InitSibling /\ [][Next]_vars

(***************************************************************************)
(* The claims.                                                             *)
(***************************************************************************)
(* The scanner, the classifier, the import filter and the generators on    *)
(* their own: the file of the project is parsed (parseReactFile) and the   *)
(* writes of the split are computed from the parse, with no file system    *)
(* step in between.                                                        *)
(***************************************************************************)
CommentLine == << "// note" >>
InterfaceOneLine == << "interface", " ", "Foo", " ", "{", " ", "}" >>
CapConstLine == << "const", " ", "X", " ", "=", " ", "5", ";" >>
EnumLine == << "enum", " ", "Color", " ", "{", " ", "}" >>
InlineDefaultLine ==
    << "export", " ", "default", " ", "function", " ", "Foo", "(", ")", " ", "{",
       " ", "return", " ", "null", ";", " ", "}" >>

\* the texts of 1 to n lines over a set of lines
TextsOver(lineSet, n) == UNION {[1..k -> lineSet] : k \in 1..n}

\* one file of the project, holding one of the texts
InitPure(files, texts) == InitWith({(f :> t) : f \in files, t \in texts}, 0)

\* parseReactFile(content), with the blocks its loop extracted
ScanParse ==
    /\ pc = "idle" /\ calls = 0
    /\ \E f \in DOMAIN disk :
           /\ cur' = f
           /\ results' = << [parsed |-> parseReactFile(disk[f]),
                             blocks |-> BlocksFrom(disk[f], 1),
                             required |-> << >>] >>
    /\ pc' = "scanned"
    /\ UNCHANGED << disk, dirs, now, opts, queue, plan, newFiles, createdFiles,
                    backupPath, rb, outcome, calls, disk0, dirs0, written, backups,
                    rbFailed >>

\* getRequiredImports for the types, the constants, the utilities, the
\* sub-components and the main component
ScanFilter ==
    /\ pc = "scanned"
    /\ results' = << [results[1] EXCEPT !.required = RequiredImports(results[1].parsed)] >>
    /\ pc' = "filtered"
    /\ UNCHANGED << disk, dirs, now, opts, queue, cur, plan, newFiles, createdFiles,
                    backupPath, rb, outcome, calls, disk0, dirs0, written, backups,
                    rbFailed >>

\* the files performIntelligentSplit makes of the parse
ScanPlan ==
    /\ pc = "filtered"
    /\ plan' = ReactWrites(cur, SplitDir(cur), BaseNameOf(cur), Extname(cur),
                           results[1].parsed, results[1].required)
    /\ pc' = "planned"
    /\ UNCHANGED << disk, dirs, now, opts, queue, cur, newFiles, createdFiles,
                    backupPath, rb, results, outcome, calls, disk0, dirs0, written,
                    backups, rbFailed >>

NextScan ==
    \/ ScanParse
    \/ ScanFilter
    \/ ScanPlan

\* declarations of every kind, one-line and multi-line
ScanLines ==
    {BlankLine, CommentLine, InterfaceOneLine, ConstLine, CapConstLine, HelperLine,
     AppLine, ImportLine, EnumLine, InlineDefaultLine, OpenLine, CloseLine}

InitScan == InitPure({TsxFile}, TextsOver(ScanLines, MaxScanLines))

SpecScan == InitScan /\ [][NextScan]_vars

\* components declared and exported in every way the classifier tells apart
FooLine ==
    << "function", " ", "Foo", "(", ")", " ", "{", " ", "return", " ", "null", ";",
       " ", "}" >>
PlainAppLine ==
    << "function", " ", "App", "(", ")", " ", "{", " ", "return", " ", "null", ";",
       " ", "}" >>
TableLine ==
    << "function", " ", "DataTable", "(", ")", " ", "{", " ", "return", " ", "null",
       ";", " ", "}" >>
DefaultFooLine == << "export", " ", "default", " ", "Foo", ";" >>
DefaultFooBarLine == << "export", " ", "default", " ", "FooBar", ";" >>

ClassifyLines ==
    {BlankLine, HelperLine, FooLine, PlainAppLine, TableLine, AppLine,
     InlineDefaultLine, DefaultFooLine, DefaultFooBarLine}

ClassifyTexts == TextsOver(ClassifyLines, MaxScanLines)

InitClassify == InitPure({TsxFile}, ClassifyTexts)

SpecClassify == InitClassify /\ [][NextScan]_vars

\* imports of one and of two names, one under an alias, and their uses
ImportBothLine ==
    << "import", " ", "{", " ", "Foo", ",", " ", "Bar", " ", "}", " ", "from", " ",
       "'x'", ";" >>
ImportAliasLine ==
    << "import", " ", "{", " ", "Foo", " ", "as", " ", "Bar", " ", "}", " ", "from",
       " ", "'x'", ";" >>
TypeFooLine == << "type", " ", "T", " ", "=", " ", "Foo", ";" >>
ConstBarLine == << "const", " ", "x", " ", "=", " ", "Bar", ";" >>
ConstFooBarLine == << "const", " ", "x", " ", "=", " ", "FooBar", ";" >>

ImportLines ==
    {BlankLine, ImportLine, ImportBothLine, ImportAliasLine, TypeFooLine,
     ConstBarLine, ConstFooBarLine, ConstLine}

InitImports == InitPure({TsxFile}, TextsOver(ImportLines, MaxScanLines))

SpecImports == InitImports /\ [][NextScan]_vars

\* files whose base name is plain, or holds a word the generators of the
\* aggregator search the names of the written files for
IndexFile == << "ui", "/", "index", ".tsx" >>
MainFile == << "ui", "/", "main", ".tsx" >>
TypesNamedFile == << "ui", "/", "x", "-", "types", ".tsx" >>

\* one declaration of each category
IndexLines == {InterfaceOneLine, ConstLine, HelperLine, FooLine, AppLine}

InitIndex ==
    InitPure({TsxFile, IndexFile, MainFile, TypesNamedFile},
             TextsOver(IndexLines, MaxScanLines))

SpecIndex == InitIndex /\ [][NextScan]_vars

\* files whose base name has a hyphen followed by a lower-case letter, by a
\* digit and by an upper-case letter
HyphenLowerFile == << "ui", "/", "util", "-", "api", ".tsx" >>
HyphenDigitFile == << "ui", "/", "util", "-", "1", ".tsx" >>
HyphenCapitalFile == << "ui", "/", "util", "-", "Foo", ".tsx" >>

InitName ==
    InitPure({TsxFile, HyphenLowerFile, HyphenDigitFile, HyphenCapitalFile},
             TextsOver(IndexLines, MaxScanLines))

SpecName == InitName /\ [][NextScan]_vars

\* functions with a body in braces, on one line and on several, and arrow
\* functions without one, on one line and on two
ArrowLine == << "const", " ", "f", " ", "=", " ", "(", "a", ")", " ", "=>" >>
ArrowBodyLine == << " ", " ", "a", ";" >>
ArrowOneLine ==
    << "const", " ", "f", " ", "=", " ", "(", "a", ")", " ", "=>", " ", "a", ";" >>
ReturnLine == << " ", " ", "return", " ", "1", ";" >>

FunctionLines ==
    {BlankLine, ArrowLine, ArrowBodyLine, ArrowOneLine, OpenLine, ReturnLine,
     CloseLine, HelperLine, ConstLine}

InitFunction == InitPure({TsxFile}, TextsOver(FunctionLines, MaxScanLines))

SpecFunction == InitFunction /\ [][NextScan]_vars

\* splitContentIntoChunks(content, maxLines) on the text of a file
ChunkSplit ==
    /\ pc = "idle" /\ calls = 0
    /\ \E f \in DOMAIN disk : \E maxLines \in 1..MaxChunkLines :
           /\ cur' = f
           /\ results' = << [maxLines |-> maxLines,
                             chunks |-> splitContentIntoChunks(disk[f], maxLines)] >>
    /\ pc' = "chunked"
    /\ UNCHANGED << disk, dirs, now, opts, queue, plan, newFiles, createdFiles,
                    backupPath, rb, outcome, calls, disk0, dirs0, written, backups,
                    rbFailed >>

\* the files refactorGenericFile makes of the chunks
ChunkPlan ==
    /\ pc = "chunked"
    /\ plan' = refactorGenericFile(cur, disk[cur], results[1].maxLines)
    /\ pc' = "planned"
    /\ UNCHANGED << disk, dirs, now, opts, queue, cur, newFiles, createdFiles,
                    backupPath, rb, results, outcome, calls, disk0, dirs0, written,
                    backups, rbFailed >>

NextChunk ==
    \/ ChunkSplit
    \/ ChunkPlan

\* lines with and without indentation, and blank lines
ChunkLines == {BlankLine, ConstLine, OpenLine, ReturnLine, CloseLine}

InitChunk == InitPure({GenFile}, TextsOver(ChunkLines, MaxScanLines))

SpecChunk == InitChunk /\ [][NextChunk]_vars

\* declarations inside the braces of another construct, and a type alias
\* written without a semicolon
NamespaceLine == << "namespace", " ", "N", " ", "{" >>
TypeAliasLine == << "export", " ", "type", " ", "T", " ", "=", " ", "Foo" >>

NestLines == {BlankLine, NamespaceLine, TypeAliasLine, CloseLine, ConstLine, OpenLine}

InitNest == InitPure({TsxFile}, TextsOver(NestLines, MaxNestLines))

SpecNest == InitNest /\ [][NextScan]_vars

\* comments that hold the keyword of a declaration
CommentTypeLine == << "//", " ", "type", " ", "of", " ", "x" >>
CommentFunctionLine == << "//", " ", "function", " ", "helper" >>
CommentConstLine == << "//", " ", "const", " ", "x" >>

CommentLines ==
    {BlankLine, CommentLine, CommentTypeLine, CommentFunctionLine, CommentConstLine,
     ConstLine, InterfaceOneLine, HelperLine}

InitComment == InitPure({TsxFile}, TextsOver(CommentLines, MaxScanLines))

SpecComment == InitComment /\ [][NextScan]_vars

(***************************************************************************)
Last(s) == s[Len(s)]

IsBackupPath(p) == Len(p) > 0 /\ p[1] = ".refactor-backups"

\* control is back in the loop of run (or past it) with the result of cur pushed
RunFileEnded ==
    /\ opts.call = "run"
    /\ pc \in {"run_loop", "idle"}
    /\ cur \in DOMAIN disk0
    /\ results # << >>
    /\ Last(results).originalFile = cur

\* splitFile has returned or thrown, for a file that existed
SplitEnded ==
    /\ opts.call = "split"
    /\ pc = "idle"
    /\ outcome \in {"returned", "threw"}
    /\ cur \in DOMAIN disk0

\* the transaction failed after its backup: verification failed or a write
\* was rejected, and the rollback code ran
FailedAfterBackup ==
    \/ RunFileEnded /\ ~Last(results).success /\ rb.site \in {"verify", "catch"}
    \/ SplitEnded /\ outcome = "threw" /\ rb.site = "split"

\* a real (not dry) call reported success for cur
SuccessReported ==
    /\ ~opts.dryRun
    /\ \/ RunFileEnded /\ Last(results).success
       \/ SplitEnded /\ outcome = "returned"

\* the three checks of the verifier, on the disk as it is
FileVerifies(p) ==
    /\ p \in DOMAIN disk
    /\ ~IsBlankText(disk[p])
    /\ CountInText(disk[p], "{") = CountInText(disk[p], "}")

\* no file outside the backup directory differs from the start of the transaction
NonBackupFilesUnchanged ==
    \A p \in DOMAIN disk \cup DOMAIN disk0 :
        \/ IsBackupPath(p)
        \/ p \in DOMAIN disk /\ p \in DOMAIN disk0 /\ disk[p] = disk0[p]

\* what a rollback has to leave: the written files gone, the backup there,
\* the original holding the backup's bytes
RolledBackState ==
    /\ \A p \in written \ {cur} : p \notin DOMAIN disk
    /\ backupPath \in DOMAIN disk
    /\ cur \in DOMAIN disk
    /\ disk[cur] = disk[backupPath]

\* C1: after a transaction that failed (verification failed or a write was
\* rejected) and whose rollback did not fail, the original file holds the
\* content it had before the transaction, for run and for splitFile
C1_OriginalIntactAfterFailure ==
    (FailedAfterBackup /\ ~rbFailed) =>
        (cur \in DOMAIN disk /\ disk[cur] = disk0[cur])

\* C2: the backup of the original is complete before any output file is
\* written and before the original is modified; while there is no backup
\* (none made yet, or createBackup failed) no output file is written and
\* the original is unchanged
C2_BackupBeforeAnyWrite ==
    /\ backupPath = NoPath => (written = {} /\ NonBackupFilesUnchanged)
    /\ (written # {} \/ ~NonBackupFilesUnchanged) =>
           (backupPath \in DOMAIN disk /\ disk[backupPath] = disk0[cur])

C2_OutputWrittenAfterBackup ==
    /\ pc \in {"pr_write", "sp_write"}
    /\ written # {}
    /\ backupPath \in DOMAIN disk

\* C3: success is reported, by run and by splitFile, only if every file the
\* transaction wrote exists, is not blank and has as many '{' as '}'
C3_SuccessOnlyIfVerified ==
    SuccessReported => \A p \in written : FileVerifies(p)

\* C4: after a rollback that did not fail, whether verification failed or a
\* write was rejected, no file the transaction wrote remains, the backup
\* exists and the original holds the backup's bytes
C4_RollbackLeavesNothing ==
    (RunFileEnded /\ rb.done /\ ~rbFailed) => RolledBackState

\* C5: a failed rollback reaches the caller of run as a thrown error, never
\* as a result with success = false
C5_RollbackFailureIsThrown ==
    (opts.call = "run" /\ rbFailed /\ pc \in {"run_loop", "idle"}) =>
        outcome = "threw"

\* C6: once the backup is made, control returns only with the transaction
\* verified (success reported, every written file verifies) or rolled back
\* (written files gone, original restored from the backup)
C6_ReturnsVerifiedOrRolledBack ==
    ((RunFileEnded \/ SplitEnded) /\ backupPath # NoPath /\ ~rbFailed) =>
        \/ SuccessReported /\ \A p \in written : FileVerifies(p)
        \/ ~SuccessReported /\ RolledBackState

\* C7: every createBackup call writes to a path that did not exist before,
\* whatever the clock reads: no backup file is ever overwritten
C7_BackupPathsAreFresh ==
    \A i \in 1..Len(backups) : backups[i].fresh

\* C8: run with createBackups = false creates no backup file
C8_NoBackupWhenDisabled ==
    (opts.call = "run" /\ ~opts.createBackups) =>
        (backups = << >> /\ \A p \in DOMAIN disk : ~IsBackupPath(p))

\* C9: with dryRun, run and splitFile create, modify and delete nothing (no
\* backup, no output file, no directory, the original unchanged) and return
\* successful results that carry the suggested files and the analysis
C9_DryRunTouchesNothing ==
    opts.dryRun =>
        /\ disk = disk0 /\ dirs = dirs0
        /\ backups = << >> /\ written = {}
        /\ (pc = "idle" /\ outcome = "returned") =>
               /\ results # << >>
               /\ \A i \in 1..Len(results) :
                      /\ results[i].success
                      /\ results[i].analysis
                      /\ Len(results[i].newFiles) > 0

C9_DryRunReturned ==
    /\ opts.dryRun
    /\ pc = "idle" /\ outcome = "returned"
    /\ results # << >>

\* C10: splitting the forwarding file a successful split left yields no
\* block, writes no new file, leaves every file of the earlier split (its
\* index file too) as it was, and reports success
C10_ResplitIsNoOp ==
    (/\ SplitEnded /\ ~opts.dryRun /\ outcome = "returned"
     /\ disk0[cur] = createUpdatedOriginalFile(BaseNameOf(cur), SplitDir(cur))
     /\ PathJoin(SplitDir(cur), << "index" >> \o Extname(cur)) \in DOMAIN disk0) =>
        /\ parseReactFile(disk0[cur]) = EmptyParse
        /\ \A p \in DOMAIN disk : IsBackupPath(p) \/ p \in DOMAIN disk0
        /\ \A p \in DOMAIN disk0 :
               IsBackupPath(p) \/ (p \in DOMAIN disk /\ disk[p] = disk0[p])
        /\ results[1].success

\* the text was parsed
Scanned == pc \in {"scanned", "filtered", "planned"}

\* the imports of each group of blocks were filtered
Filtered == pc \in {"filtered", "planned"}

\* the writes of the split were computed
Planned == pc = "planned"

IsCommentLine(line) ==
    Len(TrimLine(line)) > 0 /\ TrimLine(line)[1] \in CommentTokens

\* braces, brackets and parentheses are closed as often as opened, and no
\* line closes a brace that was not opened
Balanced(text) ==
    /\ CountInText(text, "{") = CountInText(text, "}")
    /\ CountInText(text, "[") = CountInText(text, "]")
    /\ CountInText(text, "(") = CountInText(text, ")")
    /\ \A k \in 1..Len(text) :
           CountInText(SubSeq(text, 1, k), "{") >= CountInText(SubSeq(text, 1, k), "}")

\* the blocks that hold line k
BlocksHolding(blocks, k) ==
    {i \in 1..Len(blocks) : blocks[i].first <= k /\ k <= blocks[i].last}

\* C11: for an input whose braces are balanced, the blocks of the scanner do
\* not overlap and every line that is neither blank nor a comment lies in
\* exactly one block
C11_BlocksPartitionLines ==
    (Scanned /\ Balanced(disk[cur])) =>
        /\ \A i \in 1..Len(results[1].blocks) : \A j \in 1..Len(results[1].blocks) :
               i < j => results[1].blocks[i].last < results[1].blocks[j].first
        /\ \A k \in 1..Len(disk[cur]) :
               (~IsBlankLine(disk[cur][k]) /\ ~IsCommentLine(disk[cur][k])) =>
                   Cardinality(BlocksHolding(results[1].blocks, k)) = 1

\* the default-export declarations of a text: its lines that say `export default`
DefaultExports(text) ==
    {TrimLine(text[k]) : k \in {k \in 1..Len(text) :
                                   Includes(text[k], << "export", " ", "default" >>)}}

\* the blocks of a text as pairs of block text and category
BlockCategories(text, blocks) ==
    {<< SubSeq(text, blocks[i].first, blocks[i].last), blocks[i].category >> :
         i \in 1..Len(blocks)}

\* C12: the category of a block depends only on the text of the block and on
\* the default-export declaration of its file: a block of the same text in a
\* file with the same default-export declaration has the same category,
\* wherever the block and the export statement sit
C12_CategoryDependsOnTextAndExport ==
    Scanned =>
        \A other \in ClassifyTexts :
            DefaultExports(other) = DefaultExports(disk[cur]) =>
                \A p \in BlockCategories(disk[cur], results[1].blocks) :
                    \A q \in BlockCategories(other, BlocksFrom(other, 1)) :
                        p[1] = q[1] => p[2] = q[2]

\* the identifier a declaration line declares: the one after its first
\* `function` or `const`
DeclaredName(line) ==
    line[2 + CHOOSE i \in 1..Len(line) :
                 /\ line[i] \in {"function", "const"}
                 /\ \A j \in 1..(i - 1) : line[j] \notin {"function", "const"}]

RoleSuffixes == {"Table", "Component", "Page", "View", "Layout", "App"}

EndsWithRoleSuffix(name) ==
    name \in RoleSuffixes \/ Endings(name) \cap RoleSuffixes # {}

\* the block that starts at `first` is the default export of the text: declared
\* `export default function Name`, or named by a statement `export default Name`
IsDefaultExport(text, first) ==
    \/ StartsWith(TrimLine(text[first]),
                  << "export", " ", "default", " ", "function", " " >>)
    \/ \E k \in 1..Len(text) :
           TrimLine(text[k]) \in
               {<< "export", " ", "default", " ", DeclaredName(text[first]) >>,
                << "export", " ", "default", " ", DeclaredName(text[first]), ";" >>}

\* C13: a component block is Main if and only if it is the default export of
\* the file, or is declared `export function`, or its identifier ends with a
\* role suffix; every other component block is a sub-component
C13_MainIffExportedOrRole ==
    Scanned =>
        \A i \in 1..Len(results[1].blocks) :
            results[1].blocks[i].category \in {"mainComponent", "subComponents"} =>
                (results[1].blocks[i].category = "mainComponent"
                 <=> \/ IsDefaultExport(disk[cur], results[1].blocks[i].first)
                     \/ StartsWith(TrimLine(disk[cur][results[1].blocks[i].first]),
                                   << "export", " ", "function", " " >>)
                     \/ EndsWithRoleSuffix(
                            DeclaredName(disk[cur][results[1].blocks[i].first])))

\* the identifiers the import statements of the model bind
ImportNames == {"Foo", "Bar", "FooBar"}

\* the names an import statement binds: Foo for `{ Foo }`, Bar for `{ Foo as Bar }`
BoundNames(s) ==
    {s[i] : i \in {i \in 1..Len(s) :
                      /\ s[i] \in ImportNames
                      /\ ~(i + 2 <= Len(s) /\ s[i + 1] = " " /\ s[i + 2] = "as")}}

\* the name occurs in the text as a whole identifier
UsesName(text, name) ==
    \E k \in 1..Len(text) : \E i \in 1..Len(text[k]) : text[k][i] = name

\* the lines of a generated file that import from a module, and its other lines
ModuleImportsOf(text) ==
    {k \in 1..Len(text) : StartsWith(text[k], << "import", " ", "{" >>)}

BodyOf(text) ==
    SelectSeq(text, LAMBDA line : ~StartsWith(line, << "import" >>))

\* the writes of the split that make a category file
CategorySteps ==
    {i \in 1..Len(plan) :
         \E suffix \in {"types", "constants", "utils", "components", "main"} :
             Includes(BaseNameOf(plan[i].path), << "-", suffix >>)}

\* the names the module imports of a generated file bind
ImportedNames(text) ==
    UNION {BoundNames(text[k]) : k \in ModuleImportsOf(text)}

\* C14: when an import statement of the source binds several names and the
\* blocks of a category use some of them, the file generated for the category
\* imports, of these names, exactly the ones its blocks use
C14_ImportsExactlyUsedNames ==
    Planned =>
        \A i \in CategorySteps :
            \A j \in 1..Len(results[1].parsed.imports) :
                LET names == BoundNames(Flatten(results[1].parsed.imports[j]))
                    used == {n \in names : UsesName(BodyOf(plan[i].text), n)}
                IN  (Cardinality(names) > 1 /\ used # {}) =>
                        ImportedNames(plan[i].text) \cap names = used

\* the groups of blocks the filter is asked about, in the order of the code
GroupsOf(parsed) ==
    << parsed.types, parsed.constants, parsed.utilities, parsed.subComponents,
       << parsed.mainComponent >> >>

\* C18: the filter retains an import statement for a group of blocks if and
\* only if one of the names it binds occurs in the group as a whole
\* identifier; an occurrence inside a longer identifier does not count
C18_RetainedIffWholeNameUsed ==
    Filtered =>
        \A k \in 1..5 : \A j \in 1..Len(results[1].parsed.imports) :
            (\E r \in 1..Len(results[1].required[k]) :
                 results[1].required[k][r] = results[1].parsed.imports[j])
            <=> \E n \in BoundNames(Flatten(results[1].parsed.imports[j])) :
                    \E b \in 1..Len(GroupsOf(results[1].parsed)[k]) :
                        UsesName(GroupsOf(results[1].parsed)[k][b], n)

\* the line starts a declaration other than an import
DeclarationLine(line) ==
    /\ Len(TrimLine(line)) > 0
    /\ TrimLine(line)[1] \in {"enum", "class", "interface", "type", "const",
                               "function", "export"}

\* the line is part of a file the split writes next to the original
Emitted(line) ==
    \E i \in 1..Len(plan) :
        /\ plan[i].path # cur
        /\ \E k \in 1..Len(plan[i].text) : plan[i].text[k] = line

\* C15: every declaration of the input that is not an import is part of some
\* file the split writes; a declaration no rule classifies (an enum, a class)
\* is written too, never dropped
C15_EveryDeclarationEmitted ==
    Planned =>
        \A k \in 1..Len(disk[cur]) :
            DeclarationLine(disk[cur][k]) => Emitted(disk[cur][k])

\* the writes of the split in the order of the code: the category files other
\* than the main file, the main file, the aggregator, the original
PartWrites == 1..(Len(plan) - 3)

MainWrite == Len(plan) - 2

IndexWrite == Len(plan) - 1

\* `export * from './<file>';`
ExportAllFrom(file) ==
    << "export", " ", "*", " ", "from", " ", "'./" >> \o BaseNameOf(file)
        \o << "'", ";" >>

\* the line is `import <name> from './<file>';`
ImportsMainFrom(line, file) ==
    /\ Len(line) > Len(BaseNameOf(file)) + 8
    /\ SubSeq(line, 1, 2) = << "import", " " >>
    /\ SubSeq(line, Len(line) - Len(BaseNameOf(file)) - 5, Len(line))
           = << " ", "from", " ", "'./" >> \o BaseNameOf(file) \o << "'", ";" >>

\* the name such a line imports
MainNameOf(line, file) == SubSeq(line, 3, Len(line) - Len(BaseNameOf(file)) - 6)

\* C16: the aggregator holds exactly one `export * from` line for each
\* category file written other than the main file and no other such line,
\* and for the main file an import of the main identifier followed by its
\* named and its default re-export, whatever the base name of the file
C16_AggregatorExportsEveryFile ==
    Planned =>
        /\ \A i \in PartWrites :
               Cardinality({k \in 1..Len(plan[IndexWrite].text) :
                               plan[IndexWrite].text[k] = ExportAllFrom(plan[i].path)}) = 1
        /\ Cardinality({k \in 1..Len(plan[IndexWrite].text) :
                           StartsWith(plan[IndexWrite].text[k],
                                      << "export", " ", "*" >>)})
               = Cardinality(PartWrites)
        /\ \E k \in 1..(Len(plan[IndexWrite].text) - 2) :
               /\ ImportsMainFrom(plan[IndexWrite].text[k], plan[MainWrite].path)
               /\ plan[IndexWrite].text[k + 1]
                      = << "export", " ", "{", " " >>
                        \o MainNameOf(plan[IndexWrite].text[k], plan[MainWrite].path)
                        \o << " ", "}", ";" >>
               /\ plan[IndexWrite].text[k + 2]
                      = << "export", " ", "default", " " >>
                        \o MainNameOf(plan[IndexWrite].text[k], plan[MainWrite].path)
                        \o << ";" >>

\* the transaction of cur has ended: run pushed its result and is back at the
\* head of its loop
TransactionEnded ==
    /\ pc = "run_loop"
    /\ results # << >>
    /\ Last(results).originalFile = cur

\* C17: within one run the file transactions do not overlap: while one is in
\* progress no other file is (it is the only file without a result that is
\* no longer queued), and run turns to the next file only when the
\* transaction of the previous one has ended
C17_TransactionsDoNotOverlap ==
    /\ []((opts.call = "run" /\ pc \notin {"run_loop", "idle"}) =>
              /\ \A i \in 1..Len(results) : results[i].originalFile # cur
              /\ \A i \in 1..Len(queue) :
                     /\ queue[i] # cur
                     /\ \A j \in 1..Len(results) : results[j].originalFile # queue[i])
    /\ [][(opts.call = "run" /\ cur # NoPath /\ cur' \notin {cur, NoPath}) =>
               TransactionEnded]_vars

C17_SecondTransactionAfterFirst ==
    /\ opts.call = "run" /\ ~opts.dryRun
    /\ pc = "pr_write" /\ written # {}
    /\ cur = OtherFile
    /\ Len(results) = 1 /\ results[1].originalFile = GenFile

\* the line binds a constant to a value that is no function expression
PlainConstLine(line) ==
    /\ StartsWith(TrimLine(line), << "const", " " >>)
    /\ ~Includes(line, << "=>" >>)
    /\ ~Includes(line, << "function" >>)

\* C19: a block that starts with a const binding whose value is no function
\* expression is classified as Constants, whether the name is lower-case or
\* capitalised; the file of one interface, `const X = 5;` and one
\* default-exported function gives a types, a constants and a main file and
\* one aggregator
C19_PlainConstIsConstant ==
    /\ Scanned =>
           \A i \in 1..Len(results[1].blocks) :
               PlainConstLine(disk[cur][results[1].blocks[i].first]) =>
                   results[1].blocks[i].category = "constants"
    /\ (Planned /\ disk[cur] = << InterfaceOneLine, CapConstLine, InlineDefaultLine >>) =>
           SubSeq(PathsOf(plan), 1, Len(plan) - 1)
               = << PathJoin(SplitDir(cur), << "App", "-", "types", ".ts" >>),
                    PathJoin(SplitDir(cur), << "App", "-", "constants", ".ts" >>),
                    PathJoin(SplitDir(cur), << "App", "-", "main", ".tsx" >>),
                    PathJoin(SplitDir(cur), << "index", ".tsx" >>) >>

\* the first line of a set of lines, or the last line of the text if it is empty
FirstOr(ks, text) ==
    IF ks = {} THEN Len(text) ELSE CHOOSE k \in ks : \A j \in ks : k <= j

\* the first line from `first` on that holds a ';', or the last line
TerminatorFrom(text, first) ==
    FirstOr({k \in first..Len(text) : Includes(text[k], << ";" >>)}, text)

\* the block starting at `first` is an arrow function without a body in
\* braces: no brace up to its terminator
BodylessArrow(text, first) ==
    /\ Includes(text[first], << "=>" >>)
    /\ \A k \in first..TerminatorFrom(text, first) : Count(text[k], "{") = 0

\* the first line from `first` on at which a brace has been opened and the
\* depth is back at 0, or the last line
BodyEndFrom(text, first) ==
    FirstOr({k \in first..Len(text) :
                 /\ CountInText(SubSeq(text, first, k), "{") > 0
                 /\ CountInText(SubSeq(text, first, k), "{")
                        = CountInText(SubSeq(text, first, k), "}")}, text)

\* C20: a function block whose body brace was opened ends on the first line
\* at which the depth is back at 0; an arrow function block without a body
\* ends on the first line from its start on that holds a ';', also when the
\* '=>' is on an earlier line, or on the last line if there is none
C20_FunctionBlockEnds ==
    Scanned =>
        \A i \in 1..Len(results[1].blocks) :
            results[1].blocks[i].category
                \in {"utilities", "subComponents", "mainComponent"} =>
                LET first == results[1].blocks[i].first
                IN  IF BodylessArrow(disk[cur], first)
                    THEN results[1].blocks[i].last = TerminatorFrom(disk[cur], first)
                    ELSE (\E k \in first..Len(disk[cur]) : Count(disk[cur][k], "{") > 0)
                             => results[1].blocks[i].last = BodyEndFrom(disk[cur], first)

\* the braces opened from line `first` on are never all closed again: no line
\* from `first` on at which a brace was opened and the depth is back at 0
NeverCloses(text, first) ==
    /\ \E k \in first..Len(text) : Count(text[k], "{") > 0
    /\ \A k \in first..Len(text) :
           CountInText(SubSeq(text, first, k), "{")
               # CountInText(SubSeq(text, first, k), "}")

\* the warnings of a result of the scanner
WarningsOf(parsed) ==
    IF "warnings" \in DOMAIN parsed THEN parsed.warnings ELSE << >>

\* C21: a type or function block whose braces never close before the end of
\* the file ends at the last line, and the result of the scanner holds a
\* warning for it
C21_UnterminatedBlockIsWarned ==
    Scanned =>
        \A i \in 1..Len(results[1].blocks) :
            (/\ results[1].blocks[i].category
                    \in {"types", "utilities", "subComponents", "mainComponent"}
             /\ NeverCloses(disk[cur], results[1].blocks[i].first)) =>
                /\ results[1].blocks[i].last = Len(disk[cur])
                /\ \E w \in 1..Len(WarningsOf(results[1].parsed)) :
                       WarningsOf(results[1].parsed)[w] = results[1].blocks[i].first

\* the braces, and with brackets also the brackets, opened in the lines
\* first..last less those closed there
NetDepth(text, first, last, brackets) ==
    CountInText(SubSeq(text, first, last), "{")
        - CountInText(SubSeq(text, first, last), "}")
        + IF brackets
          THEN CountInText(SubSeq(text, first, last), "[")
                   - CountInText(SubSeq(text, first, last), "]")
          ELSE 0

\* C22: every type, constant and function block of the scanner has net brace
\* depth 0 over its lines (a constant: net brace and bracket depth), or ends
\* at the last line of the file
C22_BlockDepthZeroOrAtEnd ==
    Scanned =>
        \A i \in 1..Len(results[1].blocks) :
            results[1].blocks[i].category # "imports" =>
                \/ NetDepth(disk[cur], results[1].blocks[i].first,
                            results[1].blocks[i].last,
                            results[1].blocks[i].category = "constants") = 0
                \/ results[1].blocks[i].last = Len(disk[cur])

\* the scanner is between blocks at line k: no block that started on an
\* earlier line holds it
IdleAt(blocks, k) ==
    \A i \in 1..Len(blocks) : ~(blocks[i].first < k /\ k <= blocks[i].last)

\* C23: a blank line or a comment line the scanner meets between blocks is the
\* first line of no block and lies in no block, whatever keyword it holds
C23_CommentStartsNoBlock ==
    Scanned =>
        \A k \in 1..Len(disk[cur]) :
            (/\ IsBlankLine(disk[cur][k]) \/ IsCommentLine(disk[cur][k])
             /\ IdleAt(results[1].blocks, k)) =>
                BlocksHolding(results[1].blocks, k) = {}

\* the base name split on hyphens, the first character of each segment
\* upper-cased, the segments concatenated
Capitalised(name) ==
    LET kept == SelectSeq([i \in 1..Len(name) |-> i], LAMBDA i : name[i] # "-")
    IN  [k \in 1..Len(kept) |->
            IF kept[k] = 1 \/ name[kept[k] - 1] = "-"
            THEN UpperFirst(name[kept[k]])
            ELSE name[kept[k]]]

\* C24: the identifier the aggregator exports as default is the base name
\* split on hyphens, each segment capitalised, the segments concatenated, and
\* toPascalCase and extractMainComponentName agree on the base name
C24_ExportNameIsCapitalisedBaseName ==
    Planned =>
        /\ \E k \in 1..Len(plan[IndexWrite].text) :
               plan[IndexWrite].text[k]
                   = << "export", " ", "default", " " >>
                         \o Capitalised(BaseNameOf(cur)) \o << ";" >>
        /\ toPascalCase(BaseNameOf(cur)) = extractMainComponentName(BaseNameOf(cur))

SelectedFiles ==
    [i \in 1..Len(results) |-> results[i].originalFile]
        \o (IF pc \in {"run_loop", "idle"} THEN << >> ELSE << cur >>)
        \o queue

RollbackCompleted ==
    /\ opts.call = "run"
    /\ pc = "run_loop"
    /\ rb.site \in {"verify", "catch"}
    /\ rb.done

\* C27: after a rollback no path of the created-file list is on disk, a file
\* that was there before the transaction and was overwritten by it included;
\* only the original file holds again what it held before
C27_RollbackRemovesOverwrittenSiblings ==
    RollbackCompleted =>
        /\ \A i \in 1..Len(createdFiles) :
               createdFiles[i] # cur => createdFiles[i] \notin DOMAIN disk
        /\ cur \in DOMAIN disk
        /\ disk[cur] = disk0[cur]

C27_SiblingGoneAfterRollback ==
    /\ RollbackCompleted
    /\ \E i \in 1..Len(createdFiles) :
           /\ createdFiles[i] # cur
           /\ createdFiles[i] \in DOMAIN disk0
           /\ createdFiles[i] \notin DOMAIN disk

\* the blocks of the scan that were classified as the main component
MainBlocks == {i \in 1..Len(results[1].blocks) :
                   results[1].blocks[i].category = "mainComponent"}

\* the lines of a block
ContentOf(b) == SubSeq(disk[cur], b.first, b.last)

\* the text holds the lines of the content, in a row
Holds(text, content) ==
    \E k \in 0..(Len(text) - Len(content)) :
        SubSeq(text, k + 1, k + Len(content)) = content

\* the writes of the main file and of the sub-components file
ComponentWrites ==
    {MainWrite} \cup {i \in PartWrites : Includes(plan[i].path, << "-", "components" >>)}

\* C28: when several blocks of a file qualify as Main, the main-component slot
\* holds the last of them, and an earlier one (with a text no other block of
\* the file has) is in neither the main file nor the sub-components file
C28_LastMainReplacesEarlier ==
    (Planned /\ MainBlocks # {}) =>
        LET last == CHOOSE i \in MainBlocks : \A j \in MainBlocks : j <= i
        IN  /\ results[1].parsed.mainComponent = ContentOf(results[1].blocks[last])
            /\ \A i \in MainBlocks \ {last} :
                   (\A j \in 1..Len(results[1].blocks) :
                        j # i /\ j \notin MainBlocks \ {last} =>
                            ContentOf(results[1].blocks[j])
                                # ContentOf(results[1].blocks[i])) =>
                       \A w \in ComponentWrites :
                           ~Holds(plan[w].text, ContentOf(results[1].blocks[i]))

C28_TwoMainBlocks ==
    /\ Planned
    /\ \E i \in MainBlocks : \E j \in MainBlocks :
           /\ i < j
           /\ ContentOf(results[1].blocks[i]) # ContentOf(results[1].blocks[j])
    /\ Cardinality(ComponentWrites) = 2

\* C29: every block the scanner extracts ends on a line of the text that is
\* not before its first line, and the blocks come in strictly increasing line
\* order: every turn of the loop moves on by at least one line, so the scan
\* of a text comes to an end
C29_ScannerAdvances ==
    Scanned =>
        /\ \A i \in 1..Len(results[1].blocks) :
               /\ 1 <= results[1].blocks[i].first
               /\ results[1].blocks[i].first <= results[1].blocks[i].last
               /\ results[1].blocks[i].last <= Len(disk[cur])
        /\ \A i \in 1..(Len(results[1].blocks) - 1) :
               results[1].blocks[i].last < results[1].blocks[i + 1].first

C29_BlockOfSeveralLinesThenBlock ==
    /\ Scanned
    /\ Len(results[1].blocks) >= 2
    /\ results[1].blocks[1].last > results[1].blocks[1].first
    /\ results[1].blocks[2].category = "imports"

\* the text was cut into chunks
Chunked == pc \in {"chunked", "planned"} /\ "chunks" \in DOMAIN results[1]

\* the lines of a text that are not blank, without the white space around them
NonBlankLines(text) ==
    LET kept == SelectSeq(text, LAMBDA line : ~IsBlankLine(line))
    IN  [k \in 1..Len(kept) |-> TrimLine(kept[k])]

\* the lines of the texts of a list, one text after the other
RECURSIVE LinesOfAll(_)
LinesOfAll(texts) ==
    IF Len(texts) = 0 THEN << >> ELSE Head(texts) \o LinesOfAll(Tail(texts))

\* C30: splitContentIntoChunks ends a chunk only at a blank line met after
\* maxLines lines (a text with no blank line after its first maxLines lines
\* is one chunk at most), no chunk it returns is empty, and the non-blank
\* lines of the chunks, in order, are the non-blank lines of the text
C30_ChunksAreNonEmptyAndComplete ==
    Chunked =>
        /\ (\A i \in (results[1].maxLines + 1)..Len(disk[cur]) :
                ~IsBlankLine(disk[cur][i])) => Len(results[1].chunks) <= 1
        /\ \A k \in 1..Len(results[1].chunks) : ~IsBlankText(results[1].chunks[k])
        /\ NonBlankLines(LinesOfAll(results[1].chunks)) = NonBlankLines(disk[cur])

====
